---- MODULE Spec2Model ----
(***************************************************************************)
(* Model of the packetimpact testbench connection engine                   *)
(* (test/packetimpact/testbench/connections.go): the per-layer states of a *)
(* TCP/IPv4 connection, Connection.CreateFrame / SendFrame / ExpectFrame / *)
(* Expect and TCPIPv4.Handshake.                                            *)
(*                                                                         *)
(* A 32-bit sequence number is the pair <<hi, lo>> of its 16-bit halves,   *)
(* so that the arithmetic keeps its width.  An optional field (a Go        *)
(* pointer that may be nil) is a sequence of length at most one.           *)
(***************************************************************************)
EXTENDS Integers, Sequences, FiniteSets, TLC

VARIABLES
    layerStates,  \* Connection.layerStates: <<etherState, ipv4State, tcpState>>
    injected,     \* what Connection.injector was handed, oldest first
    now,          \* the clock read by time.Now and time.Until, in ticks
    pc,           \* position of the test's thread of control
    caller,       \* who called the running ExpectFrame
    expLayers,    \* ExpectFrame: the layers argument
    timeout,      \* ExpectFrame: the timeout variable (reassigned by the loop)
    deadline,     \* ExpectFrame: the deadline local
    errs,         \* ExpectFrame: the errs local, a list of layersError
    recvLog,      \* what sniffer.Recv returned during the running call
    ret,          \* what the last ExpectFrame call returned
    hsX,          \* Handshake: localSeqNum when the call began
    sniffer,      \* Connection.sniffer: "open" or "closed"
    injector,     \* Connection.injector: "open" or "closed"
    fds,          \* the descriptors the process has open
    closeLog,     \* the close calls Connection.Close made, in order
    created,      \* the CreateFrame call whose frame the test holds
    expectRet,    \* what the last Expect call returned
    layerL,       \* Layer.merge, Layer.match: the receiver l
    layerOther,   \* Layer.merge, Layer.match: the argument other
    layerRet,     \* Layer.merge, Layer.match: what the call returned
    cmdOutput,    \* ParseDevices: the lines of its argument
    lineNo,       \* ParseDevices: the lines the loop has been through
    currentDevice, \* ParseDevices: the currentDevice local
    currentInfo,  \* ParseDevices: the currentInfo local
    deviceInfos,  \* ParseDevices: the deviceInfos local
    devRet,       \* ParseDevices: what the call returned
    mac,          \* MACToIP: the argument
    macRet,       \* MACToIP: what the call returned
    peer,         \* a second Connection of the same test process
    inode,        \* package host: the inode of an imported host file
    host,         \* package host: the host's side of the descriptor
    tasks         \* package host: the calls in progress, one per goroutine

vars == <<layerStates, injected, now, pc, caller, expLayers, timeout,
          deadline, errs, recvLog, ret, hsX, sniffer, injector, fds, closeLog,
          created, expectRet,
          layerL, layerOther, layerRet, cmdOutput, lineNo, currentDevice,
          currentInfo, deviceInfos, devRet, mac, macRet, peer,
          inode, host, tasks>>

----------------------------------------------------------------------------
(* Bounds of the model. *)

MaxSends == 2        \* frames a test sends
Second == 2          \* clock ticks in time.Second
MaxPayloadLen == 2   \* bytes in a Payload layer
Width == 4           \* bits in an int64 of the host file
MaxCalls == 1        \* calls a goroutine makes on the host file
MaxCount == 2        \* bytes in the buffer of a Read or a Write
MaxRefs == 4         \* references taken on the inode of a host file

----------------------------------------------------------------------------
(* Optional values and 32-bit sequence numbers. *)

Unset == <<>>
Set(v) == <<v>>
IsSet(f) == f # <<>>
Val(f) == f[1]

Half == 2 ^ 16

\* the clock stops the run after a second and a tick
MaxTime == Second + 1

\* seqnum.Value(0xFFFFFFFE) and friends
Seq32(hi, lo) == <<hi, lo>>

\* UpdateForward in arithmetic that stops at 0xFFFFFFFF instead of wrapping
UpdateForward_Saturating(v, s) ==
    LET lo == v[2] + (s % Half)
        hi == v[1] + (s \div Half) + (lo \div Half)
    IN  IF hi >= Half THEN <<Half - 1, Half - 1>> ELSE <<hi, lo % Half>>

\* seqnum.Value.UpdateForward: *v += Value(s), in uint32 arithmetic
UpdateForward(v, s) ==
    LET lo == v[2] + (s % Half)
        hi == v[1] + (s \div Half) + (lo \div Half)
    IN  <<hi % Half, lo % Half>>

TCPFlagFin == 1
TCPFlagSyn == 2
TCPFlagAck == 16

\* flags & mask # 0 for a mask that is a union of the single bits in bits
HasAny(flags, bits) == \E b \in bits : (flags \div b) % 2 = 1

----------------------------------------------------------------------------
(* Layers and frames (layers.go).  A Layers value is a sequence of layers, *)
(* outermost first; a nil Layer inside a Layers is NilLayer.               *)

NilLayer == [type |-> "nil"]
Ether(src, dst) == [type |-> "Ether", SrcAddr |-> src, DstAddr |-> dst]
IPv4(src, dst) == [type |-> "IPv4", SrcAddr |-> src, DstAddr |-> dst]
TCP(sp, dp, seq, ack, flags) ==
    [type |-> "TCP", SrcPort |-> sp, DstPort |-> dp, SeqNum |-> seq,
     AckNum |-> ack, Flags |-> flags]
UDP(sp, dp) == [type |-> "UDP", SrcPort |-> sp, DstPort |-> dp]
Payload(bytes) == [type |-> "Payload", Bytes |-> bytes]

\* the fields of a layer type, in wire order
Fields(t) ==
    CASE t = "Ether" -> <<"SrcAddr", "DstAddr">>
      [] t = "IPv4" -> <<"SrcAddr", "DstAddr">>
      [] t = "TCP" -> <<"SrcPort", "DstPort", "SeqNum", "AckNum", "Flags">>
      [] t = "UDP" -> <<"SrcPort", "DstPort">>
      [] t = "Payload" -> <<"Bytes">>
      [] OTHER -> <<>>

FieldSet(t) == {Fields(t)[k] : k \in 1..Len(Fields(t))}

\* Layer.length: the bytes a layer takes on the wire
HeaderLen(t) ==
    CASE t = "Ether" -> 14 [] t = "IPv4" -> 20 [] t = "TCP" -> 20
      [] t = "UDP" -> 8 [] OTHER -> 0

length(l) ==
    IF l.type = "Payload"
    THEN (IF IsSet(l.Bytes) THEN Len(Val(l.Bytes)) ELSE 0)
    ELSE HeaderLen(l.type)

\* Layer.merge: every field set in other overwrites l; a nil other is skipped;
\* layers of different types do not merge
mergeOk(l, other) == other.type = "nil" \/ other.type = l.type

\* merge in which other only fills in what l leaves unset
merge_KeepsOwn(l, other) ==
    IF other.type = "nil" THEN l
    ELSE [f \in DOMAIN l |->
            IF f # "type" /\ ~IsSet(l[f]) THEN other[f] ELSE l[f]]

merge(l, other) ==
    IF other.type = "nil" THEN l
    ELSE [f \in DOMAIN l |->
            IF f # "type" /\ IsSet(other[f]) THEN other[f] ELSE l[f]]

\* match that compares every field, set or not
matchLayer_ComparesUnset(l, other) ==
    \/ l.type = "nil"
    \/ /\ l.type = other.type
       /\ \A f \in FieldSet(l.type) : l[f] = other[f]

\* Layer.match: every field set in the expectation equals the actual field
matchLayer(l, other) ==
    \/ l.type = "nil"
    \/ /\ l.type = other.type
       /\ \A f \in FieldSet(l.type) : IsSet(l[f]) => l[f] = other[f]

\* Layers.merge: layer by layer; layers of other past the end are appended
LayersMergeOk(ls, other) ==
    \A i \in 1..Len(other) : i <= Len(ls) => mergeOk(ls[i], other[i])

LayersMerge(ls, other) ==
    [i \in 1..(IF Len(other) > Len(ls) THEN Len(other) ELSE Len(ls)) |->
        IF i > Len(ls) THEN other[i]
        ELSE IF i > Len(other) THEN ls[i]
        ELSE merge(ls[i], other[i])]

\* Layers.match: other may be longer than the expectation, never shorter
LayersMatch(ls, other) ==
    /\ Len(ls) <= Len(other)
    /\ \A i \in 1..Len(ls) : matchLayer(ls[i], other[i])

\* the wire value of a field the frame leaves unset
WireDefault(f) ==
    CASE f \in {"SeqNum", "AckNum"} -> Seq32(0, 0)
      [] f = "Flags" -> 0
      [] f = "Bytes" -> <<>>
      [] OTHER -> "0"

\* Layers.ToBytes: per layer, the type tag that selects the next parser and
\* the field values in wire order
ToBytes(frame) ==
    [i \in 1..Len(frame) |->
        <<frame[i].type>> \o
        [k \in 1..Len(Fields(frame[i].type)) |->
            LET f == Fields(frame[i].type)[k]
            IN  IF IsSet(frame[i][f]) THEN Val(frame[i][f]) ELSE WireDefault(f)]]

\* Layers.ToBytes fails when a layer cannot work out what follows it: an
\* Ethernet header needs an IPv4 layer next, an IPv4 header a TCP or UDP layer
ToBytesOk(frame) ==
    \A i \in 1..Len(frame) :
        LET next == IF i < Len(frame) THEN frame[i + 1].type ELSE "nil"
        IN  /\ frame[i].type # "nil"
            /\ frame[i].type = "Ether" => next = "IPv4"
            /\ frame[i].type = "IPv4" => next \in {"TCP", "UDP"}

\* parse(parseEther, b): every field of a parsed layer is set
parseLayer(b) ==
    LET t == b[1]
    IN  CASE t = "Ether" -> Ether(Set(b[2]), Set(b[3]))
          [] t = "IPv4" -> IPv4(Set(b[2]), Set(b[3]))
          [] t = "TCP" -> TCP(Set(b[2]), Set(b[3]), Set(b[4]), Set(b[5]), Set(b[6]))
          [] t = "UDP" -> UDP(Set(b[2]), Set(b[3]))
          [] OTHER -> Payload(Set(b[2]))

\* the payload parser takes every byte that is left
RECURSIVE RestBytes(_, _)
RestBytes(bytes, k) ==
    IF k > Len(bytes) THEN <<>> ELSE bytes[k][2] \o RestBytes(bytes, k + 1)

FirstPayload(bytes) ==
    IF \E k \in 1..Len(bytes) : bytes[k][1] = "Payload"
    THEN CHOOSE k \in 1..Len(bytes) :
            /\ bytes[k][1] = "Payload"
            /\ \A j \in 1..(k - 1) : bytes[j][1] # "Payload"
    ELSE Len(bytes) + 1

parse(bytes) ==
    LET k == FirstPayload(bytes)
    IN  [i \in 1..(k - 1) |-> parseLayer(bytes[i])]
        \o (IF k <= Len(bytes) THEN <<Payload(Set(RestBytes(bytes, k)))>> ELSE <<>>)


----------------------------------------------------------------------------
(* The layer states (etherState, ipv4State, tcpState). *)

lMAC == "lMAC"
rMAC == "rMAC"
lIP == "lIP"
rIP == "rIP"

newEtherState(out, in) ==
    [type |-> "etherState",
     out |-> merge(Ether(Set(lMAC), Set(rMAC)), out),
     in |-> merge(Ether(Set(rMAC), Set(lMAC)), in)]

newIPv4State(out, in) ==
    [type |-> "ipv4State",
     out |-> merge(IPv4(Set(lIP), Set(rIP)), out),
     in |-> merge(IPv4(Set(rIP), Set(lIP)), in)]

\* a TCP state that starts with a remoteSeqNum of zero
newTCPState_RemoteZero(portPickerFD, localPort, rnd, out, in) ==
    [type |-> "tcpState",
     out |-> merge(TCP(Set(localPort), Unset, Unset, Unset, Unset), out),
     in |-> merge(TCP(Unset, Set(localPort), Unset, Unset, Unset), in),
     localSeqNum |-> Set(rnd),
     remoteSeqNum |-> Set(<<0, 0>>),
     synAck |-> Unset,
     portPickerFD |-> portPickerFD,
     finSent |-> FALSE]

\* localPort and portPickerFD come from pickPort, rnd from rand.Uint32()
newTCPState(portPickerFD, localPort, rnd, out, in) ==
    [type |-> "tcpState",
     out |-> merge(TCP(Set(localPort), Unset, Unset, Unset, Unset), out),
     in |-> merge(TCP(Unset, Set(localPort), Unset, Unset, Unset), in),
     localSeqNum |-> Set(rnd),
     remoteSeqNum |-> Unset,
     synAck |-> Unset,
     portPickerFD |-> portPickerFD,
     finSent |-> FALSE]

\* newUDPState: localPort and portPickerFD come from pickPort
newUDPState(portPickerFD, localPort, out, in) ==
    [type |-> "udpState",
     out |-> merge(UDP(Set(localPort), Unset), out),
     in |-> merge(UDP(Unset, Set(localPort)), in),
     portPickerFD |-> portPickerFD]

\* outgoing that acknowledges nothing
tcpState_outgoing_NoAck(s) ==
    IF IsSet(s.localSeqNum)
    THEN [s.out EXCEPT !.SeqNum = Set(Val(s.localSeqNum))]
    ELSE s.out

tcpState_outgoing(s) ==
    LET withSeq == IF IsSet(s.localSeqNum)
                   THEN [s.out EXCEPT !.SeqNum = Set(Val(s.localSeqNum))]
                   ELSE s.out
    IN  IF IsSet(s.remoteSeqNum)
        THEN [withSeq EXCEPT !.AckNum = Set(Val(s.remoteSeqNum))]
        ELSE withSeq

\* incoming that expects an ack number of every segment
tcpState_incoming_AlwaysAck(s, received) ==
    IF received.type # "TCP" THEN NilLayer
    ELSE LET withSeq == IF IsSet(s.remoteSeqNum)
                        THEN [s.in EXCEPT !.SeqNum = Set(Val(s.remoteSeqNum))]
                        ELSE s.in
         IN  IF IsSet(s.localSeqNum)
             THEN [withSeq EXCEPT !.AckNum = Set(Val(s.localSeqNum))]
             ELSE withSeq

\* NilLayer when the received layer is not a TCP layer
tcpState_incoming(s, received) ==
    IF received.type # "TCP" THEN NilLayer
    ELSE LET withSeq == IF IsSet(s.remoteSeqNum)
                        THEN [s.in EXCEPT !.SeqNum = Set(Val(s.remoteSeqNum))]
                        ELSE s.in
         IN  IF IsSet(s.localSeqNum) /\ HasAny(Val(received.Flags), {TCPFlagAck})
             THEN [withSeq EXCEPT !.AckNum = Set(Val(s.localSeqNum))]
             ELSE withSeq

\* the loop over tcp.next(), tcp.next().next(), ...: v.UpdateForward(length)
RECURSIVE ForwardOverNext(_, _, _)
ForwardOverNext(v, frame, i) ==
    IF i >= Len(frame) THEN v
    ELSE ForwardOverNext(UpdateForward(v, length(frame[i + 1])), frame, i + 1)

\* sent and received fail on a layer that is not a TCP layer; sent reads
\* *tcp.Flags and so ends the test on a TCP layer whose Flags are nil
tcpState_sentOk(s, frame, i) == frame[i].type = "TCP" /\ IsSet(frame[i].Flags)

\* sent with a FIN that takes no sequence number
tcpState_sent_FinUncounted(s, frame, i) ==
    LET tcp == frame[i]
        v0 == Val(s.localSeqNum)
        v1 == IF ~s.finSent THEN ForwardOverNext(v0, frame, i) ELSE v0
        v2 == IF IsSet(tcp.Flags) /\ HasAny(Val(tcp.Flags), {TCPFlagSyn})
              THEN UpdateForward(v1, 1) ELSE v1
    IN  [s EXCEPT !.localSeqNum = Set(v2),
                  !.finSent = IF HasAny(Val(tcp.Flags), {TCPFlagFin})
                              THEN TRUE ELSE s.finSent]

\* sent whose finSent says whether the segment just sent had the FIN flag
tcpState_sent_FinSentOfLast(s, frame, i) ==
    LET tcp == frame[i]
        v0 == Val(s.localSeqNum)
        v1 == IF ~s.finSent THEN ForwardOverNext(v0, frame, i) ELSE v0
        v2 == IF IsSet(tcp.Flags) /\ HasAny(Val(tcp.Flags), {TCPFlagSyn, TCPFlagFin})
              THEN UpdateForward(v1, 1) ELSE v1
    IN  [s EXCEPT !.localSeqNum = Set(v2),
                  !.finSent = HasAny(Val(tcp.Flags), {TCPFlagFin})]

\* sent with a SYN that takes no sequence number
tcpState_sent_SynUncounted(s, frame, i) ==
    LET tcp == frame[i]
        v0 == Val(s.localSeqNum)
        v1 == IF ~s.finSent THEN ForwardOverNext(v0, frame, i) ELSE v0
        v2 == IF IsSet(tcp.Flags) /\ HasAny(Val(tcp.Flags), {TCPFlagFin})
              THEN UpdateForward(v1, 1) ELSE v1
    IN  [s EXCEPT !.localSeqNum = Set(v2),
                  !.finSent = IF HasAny(Val(tcp.Flags), {TCPFlagFin})
                              THEN TRUE ELSE s.finSent]

\* sent that counts a FIN only the first time one is sent
tcpState_sent_FinOnce(s, frame, i) ==
    LET tcp == frame[i]
        v0 == Val(s.localSeqNum)
        v1 == IF ~s.finSent THEN ForwardOverNext(v0, frame, i) ELSE v0
        v2 == IF \/ HasAny(Val(tcp.Flags), {TCPFlagSyn})
                 \/ (HasAny(Val(tcp.Flags), {TCPFlagFin}) /\ ~s.finSent)
              THEN UpdateForward(v1, 1) ELSE v1
    IN  [s EXCEPT !.localSeqNum = Set(v2),
                  !.finSent = IF HasAny(Val(tcp.Flags), {TCPFlagFin})
                              THEN TRUE ELSE s.finSent]

tcpState_sent(s, frame, i) ==
    LET tcp == frame[i]
        v0 == Val(s.localSeqNum)
        v1 == IF ~s.finSent THEN ForwardOverNext(v0, frame, i) ELSE v0
        v2 == IF IsSet(tcp.Flags) /\ HasAny(Val(tcp.Flags), {TCPFlagSyn, TCPFlagFin})
              THEN UpdateForward(v1, 1) ELSE v1
    IN  [s EXCEPT !.localSeqNum = Set(v2),
                  !.finSent = IF HasAny(Val(tcp.Flags), {TCPFlagFin})
                              THEN TRUE ELSE s.finSent]

tcpState_receivedOk(s, frame, i) == frame[i].type = "TCP"

\* received that advances the remoteSeqNum it has instead of taking the
\* sequence number of the segment
tcpState_received_FromPrevious(s, frame, i) ==
    LET tcp == frame[i]
        v0 == IF IsSet(s.remoteSeqNum) THEN Val(s.remoteSeqNum) ELSE Val(tcp.SeqNum)
        v1 == IF HasAny(Val(tcp.Flags), {TCPFlagSyn, TCPFlagFin})
              THEN UpdateForward(v0, 1) ELSE v0
    IN  [s EXCEPT !.remoteSeqNum = Set(ForwardOverNext(v1, frame, i))]

\* received that keeps a segment with SYN and ACK as the synAck
tcpState_received_KeepsSynAck(s, frame, i) ==
    LET tcp == frame[i]
        v0 == Val(tcp.SeqNum)
        v1 == IF HasAny(Val(tcp.Flags), {TCPFlagSyn, TCPFlagFin})
              THEN UpdateForward(v0, 1) ELSE v0
    IN  [s EXCEPT !.remoteSeqNum = Set(ForwardOverNext(v1, frame, i)),
                  !.synAck = IF Val(tcp.Flags) = TCPFlagSyn + TCPFlagAck
                             THEN Set(tcp) ELSE s.synAck]

tcpState_received(s, frame, i) ==
    LET tcp == frame[i]
        v0 == Val(tcp.SeqNum)
        v1 == IF HasAny(Val(tcp.Flags), {TCPFlagSyn, TCPFlagFin})
              THEN UpdateForward(v0, 1) ELSE v0
    IN  [s EXCEPT !.remoteSeqNum = Set(ForwardOverNext(v1, frame, i))]

\* unix.Close(fd): what may become of the descriptor table, and whether an
\* error comes back; a descriptor that is not open gives EBADF, and after
\* any other error the descriptor may or may not be gone
unixClose(fd, open) ==
    IF fd \notin open THEN {[fds |-> open, err |-> TRUE]}
    ELSE {[fds |-> open \ {fd}, err |-> FALSE],
          [fds |-> open \ {fd}, err |-> TRUE],
          [fds |-> open, err |-> TRUE]}

\* close that forgets the descriptor whether or not it was released
tcpState_close_MarksOnError(s, err) == [s EXCEPT !.portPickerFD = 0 - 1]

\* tcpState.close after unix.Close(s.portPickerFD) returned err
tcpState_close(s, err) ==
    IF err THEN s ELSE [s EXCEPT !.portPickerFD = 0 - 1]

\* udpState.close after unix.Close(s.portPickerFD) returned err
udpState_close(s, err) ==
    IF err THEN s ELSE [s EXCEPT !.portPickerFD = 0 - 1]

\* a copy that is the template itself: what is written to it is written to
\* the template
deepcopy_Copy_IsTemplate(template, written) == written

\* deepcopy.Copy(&s.out), deepcopy.Copy(&s.in): the template after the caller
\* has overwritten the copy it was given with written; the copy shares no
\* memory with the template
deepcopy_Copy(template, written) == template

\* layerState dispatch
outgoing(s) == IF s.type = "tcpState" THEN tcpState_outgoing(s) ELSE s.out
incoming(s, received) ==
    IF s.type = "tcpState" THEN tcpState_incoming(s, received) ELSE s.in
sentOk(s, frame, i) == s.type = "tcpState" => tcpState_sentOk(s, frame, i)
sent(s, frame, i) == IF s.type = "tcpState" THEN tcpState_sent(s, frame, i) ELSE s
receivedOk(s, frame, i) == s.type = "tcpState" => tcpState_receivedOk(s, frame, i)
received(s, frame, i) ==
    IF s.type = "tcpState" THEN tcpState_received(s, frame, i) ELSE s

----------------------------------------------------------------------------
(* Connection. *)

\* incoming that takes only a frame of as many layers as there are states
Connection_incoming_ExactLength(ls, rcvd) ==
    IF Len(rcvd) # Len(ls) THEN <<>>
    ELSE IF \E i \in 1..Len(ls) : incoming(ls[i], rcvd[i]).type = "nil" THEN <<>>
    ELSE [i \in 1..Len(ls) |-> incoming(ls[i], rcvd[i])]

\* nil (the empty Layers) when received is shorter than layerStates or some
\* state has no expectation for its layer
Connection_incoming(ls, rcvd) ==
    IF Len(rcvd) < Len(ls) THEN <<>>
    ELSE IF \E i \in 1..Len(ls) : incoming(ls[i], rcvd[i]).type = "nil" THEN <<>>
    ELSE [i \in 1..Len(ls) |-> incoming(ls[i], rcvd[i])]

\* match that leaves out what the override has past the layer states
Connection_match_DropsExtra(ls, override, rcvd) ==
    LET toMatch == Connection_incoming(ls, rcvd)
        o == SubSeq(override, 1, Len(ls))
    IN  /\ toMatch # <<>>
        /\ LayersMergeOk(toMatch, o)
        /\ LayersMatch(LayersMerge(toMatch, o), rcvd)

\* match that goes on with what it has when the override does not merge
Connection_match_MergeErrorIgnored(ls, override, rcvd) ==
    LET toMatch == Connection_incoming(ls, rcvd)
    IN  /\ toMatch # <<>>
        /\ LayersMatch(IF LayersMergeOk(toMatch, override)
                       THEN LayersMerge(toMatch, override) ELSE toMatch, rcvd)

Connection_match(ls, override, rcvd) ==
    LET toMatch == Connection_incoming(ls, rcvd)
    IN  /\ toMatch # <<>>
        /\ LayersMergeOk(toMatch, override)
        /\ LayersMatch(LayersMerge(toMatch, override), rcvd)

\* match that lets every layer state take in the frame it looked at
matchStates_Received(ls, override, rcvd) ==
    IF /\ Len(rcvd) >= Len(ls)
       /\ \A i \in 1..Len(ls) : receivedOk(ls[i], rcvd, i)
    THEN [i \in 1..Len(ls) |-> received(ls[i], rcvd, i)]
    ELSE ls

\* match: the layer states after toMatch.merge(override) wrote into the layers
\* that incoming returned; Layers.merge stops at the first layer that does
\* not merge
matchStates(ls, override, rcvd) ==
    LET toMatch == Connection_incoming(ls, rcvd)
    IN  IF toMatch = <<>> THEN ls
        ELSE [i \in 1..Len(ls) |->
                IF /\ i <= Len(override)
                   /\ \A j \in 1..i : mergeOk(toMatch[j], override[j])
                THEN [ls[i] EXCEPT
                        !.in = deepcopy_Copy(@, merge(toMatch[i], override[i]))]
                ELSE ls[i]]

\* CreateFrame: the layer states after the override was merged into the layer
\* that outgoing returned for the last of them
CreateFrameStates(ls, layer) ==
    [i \in 1..Len(ls) |->
        IF i = Len(ls) /\ mergeOk(outgoing(ls[i]), layer)
        THEN [ls[i] EXCEPT !.out = deepcopy_Copy(@, merge(outgoing(ls[i]), layer))]
        ELSE ls[i]]

\* CreateFrame: t.Fatalf when the override does not merge
CreateFrameOk(ls, layer) == mergeOk(outgoing(ls[Len(ls)]), layer)

\* CreateFrame that puts the override after the layers of the layer states
CreateFrame_OverrideAfter(ls, layer, additionalLayers) ==
    [i \in 1..Len(ls) |-> outgoing(ls[i])] \o <<layer>> \o additionalLayers

CreateFrame(ls, layer, additionalLayers) ==
    [i \in 1..Len(ls) |->
        IF i = Len(ls) THEN merge(outgoing(ls[i]), layer) ELSE outgoing(ls[i])]
    \o additionalLayers

\* SendFrame: the layer states after sent was called on each of them with the
\* layer parsed from the bytes that were injected
\* sentFrame taken to be the frame the caller handed over
sentFrame_CallerFrame(frame) == frame

\* sentFrame := parse(parseEther, outBytes)
sentFrame(frame) == parse(ToBytes(frame))

SendFrameOk(ls, frame) ==
    LET parsed == sentFrame(frame)
    IN  \A i \in 1..Len(ls) : i <= Len(parsed) /\ sentOk(ls[i], parsed, i)

SendFrameStates(ls, frame) ==
    LET parsed == sentFrame(frame)
    IN  [i \in 1..Len(ls) |-> sent(ls[i], parsed, i)]

\* Injector.Send, Sniffer.Recv and Sniffer.Drain fail the test on a socket
\* that was closed
InjectorSendOk(inj) == inj = "open"
SnifferRecvOk(sn) == sn = "open"

\* Sniffer.close and Injector.close: the socket afterwards and whether an
\* error comes back; closing what is closed is an error
closeSocket(sock) ==
    IF sock = "closed" THEN {[state |-> "closed", err |-> TRUE]}
    ELSE {[state |-> "closed", err |-> FALSE], [state |-> "open", err |-> TRUE]}

\* layerState.close: the descriptor handed to unix.Close, none (0) for the
\* states that hold no descriptor
closeFD(s) == IF s.type \in {"tcpState", "udpState"} THEN s.portPickerFD ELSE 0
close(s, err) ==
    CASE s.type = "tcpState" -> tcpState_close(s, err)
      [] s.type = "udpState" -> udpState_close(s, err)
      [] OTHER -> s

\* Until that counts the current tick as time left
Until_OffByOne(d, t) == d - t + 1

\* Until that takes the deadline for the time left
Until_Stale(d, t) == d

\* time.Until(deadline)
Until(d, t) == d - t

\* a turn that gives up at the first frame that does not match
TurnOutcome_GivesUp(ls, layers, gotLayers) ==
    IF gotLayers = <<>> THEN "timeout"
    ELSE IF Connection_match(ls, layers, gotLayers) THEN "matched"
    ELSE "timeout"

\* a turn that takes any frame with a layer for every layer state
TurnOutcome_TakesAny(ls, layers, gotLayers) ==
    IF gotLayers = <<>> THEN "timeout"
    ELSE IF Len(gotLayers) >= Len(ls) THEN "matched"
    ELSE "again"

\* how a turn of the loop of ExpectFrame ends for what recvFrame returned
TurnOutcome(ls, layers, gotLayers) ==
    IF gotLayers = <<>> THEN "timeout"
    ELSE IF Connection_match(ls, layers, gotLayers) THEN "matched"
    ELSE "again"

\* ExpectFrame on a match: received is called on every layer state with the
\* layer of the matched frame at its index
ReceivedOk(ls, gotLayers) ==
    \A i \in 1..Len(ls) : receivedOk(ls[i], gotLayers, i)

\* a match that returns without telling the layer states
ReceivedStates_Skipped(ls, gotLayers) == ls

ReceivedStates(ls, gotLayers) ==
    [i \in 1..Len(ls) |-> received(ls[i], gotLayers, i)]

\* errs overwritten with the latest mismatch
Combine_KeepsLast(es, got, want) == <<[got |-> got, want |-> want]>>

\* multierr.Combine(errs, &layersError{got, want})
Combine(es, got, want) == Append(es, [got |-> got, want |-> want])

----------------------------------------------------------------------------
(* What the test and the network may do. *)

lport == "lport"
rport == "rport"

Last(q) == q[Len(q)]
Zeros(n) == [k \in 1..n |-> 0]

\* pickPort: the socket that holds the ephemeral port, and the port
pickPort == [fd |-> 3, localPort |-> lport]

\* values of rand.Uint32(): around the 16-bit carry and the 32-bit wrap
RandChoices == {Seq32(0, Half - 1), Seq32(Half - 1, Half - 2)}

\* what a test passes to Send: the TCP layer and the layers after it
SendOf(flags, additionalLayers) ==
    [layer |-> TCP(Unset, Unset, Unset, Unset, Set(flags)),
     additionalLayers |-> additionalLayers]
SendChoices ==
    {SendOf(TCPFlagAck, <<Payload(Set(Zeros(MaxPayloadLen)))>>),
     SendOf(TCPFlagFin + TCPFlagAck, <<Payload(Set(Zeros(MaxPayloadLen)))>>),
     SendOf(TCPFlagFin + TCPFlagAck, <<>>)}

\* what a test passes to UDPIPv4.Send
UDPSendChoices ==
    {[layer |-> UDP(Unset, Unset),
      additionalLayers |-> <<Payload(Set(Zeros(MaxPayloadLen)))>>],
     [layer |-> UDP(Unset, Unset), additionalLayers |-> <<>>]}

\* TCPIPv4.Send takes a TCP layer, UDPIPv4.Send a UDP layer
SendChoicesOf(ls) ==
    IF Last(ls).type = "udpState" THEN UDPSendChoices ELSE SendChoices

\* the expectations a test passes to ExpectFrame (as Connection.Expect builds them)
ExpectOf(tcp) == <<NilLayer, NilLayer, tcp>>
\* TCPIPv4.ExpectData: the TCP layer in the last slot, the payload after it
ExpectData(tcp, payload) ==
    ExpectOf(tcp) \o (IF payload = NilLayer THEN <<>> ELSE <<payload>>)
ExpectLayers ==
    {ExpectOf(TCP(Unset, Unset, Unset, Unset, Set(TCPFlagAck))),
     ExpectOf(TCP(Unset, Unset, Set(Seq32(0, 7)), Unset, Unset))}
Timeouts == {0 - 1, 0, Second}

\* the frames the sniffer may capture: segments of the remote end that
\* acknowledge what was sent, with and without payload, and a frame that is
\* not IPv4
RemoteSeq(ls) ==
    IF IsSet(ls[3].remoteSeqNum) THEN Val(ls[3].remoteSeqNum)
    ELSE Seq32(Half - 1, Half - 2)

Segment(dport, seq, ack, flags, data) ==
    <<Ether(Set(rMAC), Set(lMAC)), IPv4(Set(rIP), Set(lIP)),
      TCP(Set(rport), Set(dport), Set(seq), Set(ack), Set(flags))>> \o data

RecvFrames(ls) ==
    LET local == Val(ls[3].localSeqNum)
        data == <<Payload(Set(Zeros(MaxPayloadLen)))>>
    IN  {Segment(lport, RemoteSeq(ls), local, TCPFlagSyn + TCPFlagAck, <<>>),
         Segment(lport, RemoteSeq(ls), local, TCPFlagSyn + TCPFlagAck, data),
         Segment(lport, RemoteSeq(ls), local, TCPFlagAck, data),
         Segment(lport, Seq32(0, 7), local, TCPFlagAck, <<>>),
         <<Ether(Set(rMAC), Set(lMAC)), Payload(Set(Zeros(1)))>>}

\* a segment with data that acknowledges what was sent
DataFrames(ls) ==
    LET data == <<Payload(Set(Zeros(MaxPayloadLen)))>>
    IN  IF ls[3].type = "tcpState"
        THEN {Segment(lport, RemoteSeq(ls), Val(ls[3].localSeqNum), TCPFlagAck, data)}
        ELSE {<<Ether(Set(rMAC), Set(lMAC)), IPv4(Set(rIP), Set(lIP)),
                UDP(Set(rport), Set(lport))>> \o data}

\* segments that acknowledge nothing, or not what was sent
OtherFrames(ls) ==
    {Segment(lport, Seq32(0, 7), Seq32(0, 9), TCPFlagSyn, <<>>),
     Segment(lport, Seq32(0, 7), Seq32(0, 9), TCPFlagAck, <<>>)}

\* the frames a test hands to SendFrame: one with nothing an Ethernet header
\* can announce, one with a UDP layer where the TCP state is, and one whose
\* TCP layer leaves the flags for ToBytes to fill in
SendFrameChoices(ls) ==
    {<<outgoing(ls[1]), Payload(Set(Zeros(1)))>>,
     <<outgoing(ls[1]), outgoing(ls[2]), UDP(Set(lport), Set(rport))>>,
     [i \in 1..Len(ls) |-> outgoing(ls[i])]}

\* what ExpectFrame returns: (gotLayers, nil), or (nil, an error that wraps errs)
NoReturn == [kind |-> "none", frame |-> <<>>, errs |-> <<>>]
TimeoutError(es) == [kind |-> "timeout", frame |-> <<>>, errs |-> es]
Matched(frame) == [kind |-> "ok", frame |-> frame, errs |-> <<>>]

----------------------------------------------------------------------------
(* The state after NewTCPIPv4. *)

\* the test has called no method of a layer
NoCall == [op |-> "none"]
NoLayerCall ==
    /\ layerL = NilLayer
    /\ layerOther = NilLayer
    /\ layerRet = NoCall

\* DeviceInfo{}: every field nil
DeviceInfo ==
    [MAC |-> Unset, IPv4Addr |-> Unset, IPv4Net |-> Unset,
     IPv6Addr |-> Unset, IPv6Net |-> Unset]

\* the test has called nothing of package netdevs
NoParseDevicesCall ==
    /\ cmdOutput = <<>>
    /\ lineNo = 0
    /\ currentDevice = ""
    /\ currentInfo = DeviceInfo
    /\ deviceInfos = <<>>
    /\ devRet = NoCall
NoMACToIPCall ==
    /\ mac = <<>>
    /\ macRet = NoCall
NoNetdevsCall == NoParseDevicesCall /\ NoMACToIPCall

\* no host file was imported
NoHostFile ==
    /\ inode = NoCall
    /\ host = NoCall
    /\ tasks = <<>>

\* the test has made no second connection
NoPeer == [layerStates |-> <<>>, injected |-> <<>>, matched |-> <<>>]

\* the Connection around the layer states: nothing sent, nothing asked for,
\* the sniffer and the injector open
FreshConnection ==
    /\ injected = <<>>
    /\ now = 0
    /\ pc = "idle"
    /\ caller = "test"
    /\ expLayers = <<>>
    /\ timeout = 0
    /\ deadline = 0
    /\ errs = <<>>
    /\ recvLog = <<>>
    /\ ret = NoReturn
    /\ hsX = Unset
    /\ sniffer = "open"
    /\ injector = "open"
    /\ closeLog = <<>>
    /\ created = NoCall
    /\ expectRet = NoCall
    /\ NoLayerCall
    /\ NoNetdevsCall
    /\ NoHostFile

\* the only connection of the test: the port socket is the one descriptor
InitConnection ==
    /\ FreshConnection
    /\ fds = {pickPort.fd}
    /\ peer = NoPeer

Init ==
    /\ \E rnd \in RandChoices :
        layerStates =
            <<newEtherState(Ether(Unset, Unset), Ether(Unset, Unset)),
              newIPv4State(IPv4(Unset, Unset), IPv4(Unset, Unset)),
              newTCPState(pickPort.fd, pickPort.localPort, rnd,
                          TCP(Unset, Set(rport), Unset, Unset, Unset),
                          TCP(Set(rport), Unset, Unset, Unset, Unset))>>
    /\ InitConnection

\* the state after NewUDPIPv4
InitUDPIPv4 ==
    /\ layerStates =
            <<newEtherState(Ether(Unset, Unset), Ether(Unset, Unset)),
              newIPv4State(IPv4(Unset, Unset), IPv4(Unset, Unset)),
              newUDPState(pickPort.fd, pickPort.localPort,
                          UDP(Unset, Set(rport)), UDP(Set(rport), Unset))>>
    /\ InitConnection

resVars == <<sniffer, injector, fds, closeLog>>

\* what the test holds apart from its connection
layerVars == <<layerL, layerOther, layerRet>>
parseVars == <<cmdOutput, lineNo, currentDevice, currentInfo, deviceInfos, devRet>>
macVars == <<mac, macRet>>
heldVars == <<created, expectRet>>
hostVars == <<inode, host, tasks>>
testVars == <<heldVars, layerVars, parseVars, macVars, peer, hostVars>>

expectVars == <<caller, expLayers, timeout, deadline, errs, recvLog, ret>>

\* the locals and the result of an ExpectFrame call are gone once the test
\* goes on to its next call
ForgetExpectFrame ==
    /\ caller' = "test"
    /\ expLayers' = <<>>
    /\ timeout' = 0
    /\ deadline' = 0
    /\ errs' = <<>>
    /\ recvLog' = <<>>
    /\ ret' = NoReturn

\* SendFrame that updates the layer states before it injects
DoSendFrame_UpdateFirst(ls, frame, toPc) ==
    IF ~ToBytesOk(frame)
    THEN /\ pc' = "fatal"
         /\ layerStates' = ls
         /\ UNCHANGED injected
    ELSE IF ~SendFrameOk(ls, frame)
    THEN /\ pc' = "fatal"
         /\ layerStates' = ls
         /\ UNCHANGED injected
    ELSE /\ layerStates' = SendFrameStates(ls, frame)
         /\ IF InjectorSendOk(injector)
            THEN /\ injected' = Append(injected, ToBytes(frame))
                 /\ pc' = toPc
            ELSE /\ pc' = "fatal"
                 /\ UNCHANGED injected

\* Connection.SendFrame on a connection whose layer states are ls: goes to
\* toPc unless the test is failed
DoSendFrame(ls, frame, toPc) ==
    IF ~ToBytesOk(frame) \/ ~InjectorSendOk(injector)
    THEN /\ pc' = "fatal"
         /\ layerStates' = ls
         /\ UNCHANGED injected
    ELSE /\ injected' = Append(injected, ToBytes(frame))
         /\ IF SendFrameOk(ls, frame)
            THEN /\ layerStates' = SendFrameStates(ls, frame)
                 /\ pc' = toPc
            ELSE /\ pc' = "fatal"
                 /\ layerStates' = ls

\* Connection.Send: SendFrame(CreateFrame(layer, additionalLayers...)); goes
\* to toPc unless the test is failed
DoSend(layer, additionalLayers, toPc) ==
    IF ~CreateFrameOk(layerStates, layer)
    THEN /\ pc' = "fatal"
         /\ UNCHANGED <<layerStates, injected>>
    ELSE DoSendFrame(CreateFrameStates(layerStates, layer),
                     CreateFrame(layerStates, layer, additionalLayers), toPc)

Send ==
    /\ pc = "idle"
    /\ Len(injected) < MaxSends
    /\ \E c \in SendChoicesOf(layerStates) :
        DoSend(c.layer, c.additionalLayers, "idle")
    /\ ForgetExpectFrame
    /\ UNCHANGED <<now, hsX>>
    /\ UNCHANGED resVars
    /\ UNCHANGED testVars

\* the test calls SendFrame with a frame of its own making
SendFrame ==
    /\ pc = "idle"
    /\ Len(injected) < MaxSends
    /\ \E frame \in SendFrameChoices(layerStates) :
        DoSendFrame(layerStates, frame, "idle")
    /\ ForgetExpectFrame
    /\ UNCHANGED <<now, hsX>>
    /\ UNCHANGED resVars
    /\ UNCHANGED testVars

\* ExpectFrame up to the head of its loop
EnterExpectFrame(layers, t, from) ==
    /\ caller' = from
    /\ expLayers' = layers
    /\ timeout' = t
    /\ deadline' = now + t
    /\ errs' = <<>>
    /\ recvLog' = <<>>
    /\ ret' = NoReturn

ExpectFrameCall ==
    /\ pc = "idle"
    /\ \E layers \in ExpectLayers, t \in Timeouts :
        /\ now + t <= MaxTime
        /\ EnterExpectFrame(layers, t, "test")
    /\ pc' = "ExpectFrame"
    /\ UNCHANGED <<layerStates, injected, now, hsX>>
    /\ UNCHANGED resVars
    /\ UNCHANGED testVars

\* TCPIPv4.ExpectData with a TCP layer and a payload
ExpectDataCall ==
    /\ pc = "idle"
    /\ now + Second <= MaxTime
    /\ EnterExpectFrame(
            ExpectData(TCP(Unset, Unset, Unset, Unset, Set(TCPFlagAck)),
                       Payload(Set(Zeros(MaxPayloadLen)))),
            Second, "test")
    /\ pc' = "ExpectFrame"
    /\ UNCHANGED <<layerStates, injected, now, hsX>>
    /\ UNCHANGED resVars
    /\ UNCHANGED testVars

\* Connection.Expect with a UDP layer: of the type of the last layer state on
\* a UDP connection, and not on a TCP connection
ConnectionExpectCall ==
    /\ pc = "idle"
    /\ now + Second <= MaxTime
    /\ EnterExpectFrame(ExpectOf(UDP(Unset, Unset)), Second, "test")
    /\ pc' = "ExpectFrame"
    /\ UNCHANGED <<layerStates, injected, now, hsX>>
    /\ UNCHANGED resVars
    /\ UNCHANGED testVars

\* where ExpectFrame returns to
ReturnPc ==
    IF caller = "Handshake" THEN "Handshake"
    ELSE IF caller = "Expect" THEN "Expect"
    ELSE "idle"

\* one turn of the loop with no time left: recvFrame is not called
ExpectFrameDeadline ==
    /\ pc = "ExpectFrame"
    /\ Until(deadline, now) <= 0
    /\ timeout' = Until(deadline, now)
    /\ ret' = TimeoutError(errs)
    /\ pc' = ReturnPc
    /\ UNCHANGED <<layerStates, injected, now, hsX, caller, expLayers,
                   deadline, errs, recvLog>>
    /\ UNCHANGED resVars
    /\ UNCHANGED testVars

\* one turn of the loop with time left: sniffer.Recv returns one of frames
\* after some of the time, or nothing (<<>>) after all of it; a call takes a
\* tick at least
ExpectFrameTurn(frames) ==
    /\ pc = "ExpectFrame"
    /\ Until(deadline, now) > 0
    /\ SnifferRecvOk(sniffer)
    /\ timeout' = Until(deadline, now)
    /\ \E gotLayers \in frames :
       \E elapsed \in 1..Until(deadline, now) :
        /\ gotLayers = <<>> => elapsed = Until(deadline, now)
        /\ now + elapsed <= MaxTime
        /\ now' = now + elapsed
        /\ recvLog' = Append(recvLog, gotLayers)
        /\ LET outcome == TurnOutcome(layerStates, expLayers, gotLayers)
           IN  CASE outcome = "timeout" ->
                    /\ ret' = TimeoutError(errs)
                    /\ pc' = ReturnPc
                    /\ UNCHANGED <<layerStates, errs>>
                 [] outcome = "matched" ->
                    IF ReceivedOk(layerStates, gotLayers)
                    THEN /\ layerStates' =
                                ReceivedStates(matchStates(layerStates, expLayers,
                                                           gotLayers), gotLayers)
                         /\ ret' = Matched(gotLayers)
                         /\ pc' = ReturnPc
                         /\ UNCHANGED errs
                    ELSE /\ pc' = "fatal"
                         /\ UNCHANGED <<layerStates, errs, ret>>
                 [] OTHER ->
                    /\ errs' = Combine(errs, gotLayers,
                                       Connection_incoming(layerStates, gotLayers))
                    /\ layerStates' = matchStates(layerStates, expLayers, gotLayers)
                    /\ pc' = "ExpectFrame"
                    /\ UNCHANGED ret
    /\ UNCHANGED <<injected, hsX, caller, expLayers, deadline>>
    /\ UNCHANGED resVars
    /\ UNCHANGED testVars

ExpectFrameRecv == ExpectFrameTurn(RecvFrames(layerStates) \cup {<<>>})

\* the turn when the remote end sends what acknowledges nothing
ExpectFrameRecvOther == ExpectFrameTurn(OtherFrames(layerStates))

\* the turn when the remote end only answers with data, or not at all
ExpectFrameRecvData == ExpectFrameTurn(DataFrames(layerStates) \cup {<<>>})

\* the turn on a sniffer that was closed: Recv fails the test
ExpectFrameRecvClosed ==
    /\ pc = "ExpectFrame"
    /\ Until(deadline, now) > 0
    /\ ~SnifferRecvOk(sniffer)
    /\ timeout' = Until(deadline, now)
    /\ pc' = "fatal"
    /\ UNCHANGED <<layerStates, injected, now, hsX, caller, expLayers,
                   deadline, errs, recvLog, ret>>
    /\ UNCHANGED resVars
    /\ UNCHANGED testVars

\* Handshake up to the loop of ExpectFrame: the SYN is sent, Expect is called
HandshakeCall ==
    /\ pc = "idle"
    /\ hsX = Unset
    /\ Len(injected) + 2 <= MaxSends
    /\ now + Second <= MaxTime
    /\ hsX' = Set(Val(layerStates[3].localSeqNum))
    /\ DoSend(TCP(Unset, Unset, Unset, Unset, Set(TCPFlagSyn)), <<>>, "ExpectFrame")
    /\ EnterExpectFrame(
            ExpectOf(TCP(Unset, Unset, Unset, Unset, Set(TCPFlagSyn + TCPFlagAck))),
            Second, "Handshake")
    /\ UNCHANGED now
    /\ UNCHANGED resVars
    /\ UNCHANGED testVars

\* Handshake that sends its ACK whether or not a SYN-ACK came
HandshakeResume_Unchecked ==
    /\ pc = "Handshake"
    /\ LET ls == IF ret.kind = "ok"
                 THEN [layerStates EXCEPT ![3].synAck = Set(ret.frame[Len(layerStates)])]
                 ELSE layerStates
           frame == CreateFrame(ls,
                        TCP(Unset, Unset, Unset, Unset, Set(TCPFlagAck)), <<>>)
       IN  /\ injected' = Append(injected, ToBytes(frame))
           /\ layerStates' = SendFrameStates(ls, frame)
           /\ pc' = "idle"
    /\ UNCHANGED <<now, hsX>>
    /\ UNCHANGED expectVars
    /\ UNCHANGED resVars
    /\ UNCHANGED testVars

\* Handshake from the return of Expect: no SYN-ACK fails the test, else the
\* SYN-ACK is kept and the ACK is sent
HandshakeResume ==
    /\ pc = "Handshake"
    /\ IF ret.kind # "ok"
       THEN /\ pc' = "fatal"
            /\ UNCHANGED <<layerStates, injected>>
       ELSE LET synAck == ret.frame[Len(layerStates)]
                ls == [layerStates EXCEPT ![3].synAck = Set(synAck)]
                frame == CreateFrame(ls,
                            TCP(Unset, Unset, Unset, Unset, Set(TCPFlagAck)), <<>>)
            IN  /\ injected' = Append(injected, ToBytes(frame))
                /\ layerStates' = SendFrameStates(ls, frame)
                /\ pc' = "idle"
    /\ UNCHANGED <<now, hsX>>
    /\ UNCHANGED expectVars
    /\ UNCHANGED resVars
    /\ UNCHANGED testVars

Next ==
    \/ Send
    \/ ExpectFrameCall
    \/ ExpectFrameDeadline
    \/ ExpectFrameRecv
    \/ HandshakeCall
    \/ HandshakeResume

Spec == Init /\ [][Next]_vars

\* Connection.Drain: sniffer.Drain()
Drain ==
    /\ pc = "idle"
    /\ pc' = IF SnifferRecvOk(sniffer) THEN "idle" ELSE "fatal"
    /\ ForgetExpectFrame
    /\ UNCHANGED <<layerStates, injected, now, hsX>>
    /\ UNCHANGED resVars
    /\ UNCHANGED testVars

\* the close calls of Close for what they returned
CloseLog(ls, sn, inj, fd) ==
    <<[on |-> "sniffer", err |-> sn.err], [on |-> "injector", err |-> inj.err]>>
    \o [i \in 1..Len(ls) |->
            [on |-> ls[i].type, fd |-> closeFD(ls[i]),
             err |-> IF closeFD(ls[i]) # 0 THEN fd.err ELSE FALSE]]

\* Close that returns at the first close that fails
Close_StopsAtFirstError ==
    /\ pc = "idle"
    /\ \E sn \in closeSocket(sniffer), inj \in closeSocket(injector),
          fd \in unixClose(closeFD(Last(layerStates)), fds) :
        LET log == CloseLog(layerStates, sn, inj, fd)
            n == IF \E k \in 1..Len(log) : log[k].err
                 THEN CHOOSE k \in 1..Len(log) :
                        log[k].err /\ \A j \in 1..(k - 1) : ~log[j].err
                 ELSE Len(log)
        IN  /\ sniffer' = sn.state
            /\ injector' = IF n >= 2 THEN inj.state ELSE injector
            /\ fds' = IF n = Len(log) THEN fd.fds ELSE fds
            /\ layerStates' = IF n = Len(log)
                              THEN [i \in 1..Len(layerStates) |->
                                        close(layerStates[i], log[i + 2].err)]
                              ELSE layerStates
            /\ closeLog' = SubSeq(log, 1, n)
            /\ pc' = IF log[n].err THEN "fatal" ELSE "idle"
    /\ ForgetExpectFrame
    /\ UNCHANGED <<injected, now, hsX>>
    /\ UNCHANGED testVars

\* Connection.Close: the sniffer, the injector and every layer state are
\* closed; the test is failed if a close returned an error
Close ==
    /\ pc = "idle"
    /\ \E sn \in closeSocket(sniffer), inj \in closeSocket(injector),
          fd \in unixClose(closeFD(Last(layerStates)), fds) :
        LET log == CloseLog(layerStates, sn, inj, fd)
        IN  /\ sniffer' = sn.state
            /\ injector' = inj.state
            /\ fds' = fd.fds
            /\ layerStates' = [i \in 1..Len(layerStates) |->
                                    close(layerStates[i], log[i + 2].err)]
            /\ closeLog' = log
            /\ pc' = IF \E k \in 1..Len(log) : log[k].err THEN "fatal" ELSE "idle"
    /\ ForgetExpectFrame
    /\ UNCHANGED <<injected, now, hsX>>
    /\ UNCHANGED testVars

\* a test that only listens, for more than Spec has it expect, to a remote
\* end that sends more than Spec has it send
MatchNext ==
    \/ ExpectFrameCall
    \/ ExpectDataCall
    \/ ConnectionExpectCall
    \/ ExpectFrameDeadline
    \/ ExpectFrameRecv
    \/ ExpectFrameRecvOther

MatchSpec == Init /\ [][MatchNext]_vars

\* a test on a TCP or on a UDP connection that also sends frames of its own
\* making, drains and closes, with a remote end that only answers with data
LifeNext ==
    \/ Send
    \/ SendFrame
    \/ ExpectFrameCall
    \/ ConnectionExpectCall
    \/ ExpectFrameDeadline
    \/ ExpectFrameRecvData
    \/ ExpectFrameRecvClosed
    \/ Drain
    \/ Close

LifeInit == Init \/ InitUDPIPv4

LifeSpec == LifeInit /\ [][LifeNext]_vars

\* what a test passes to CreateFrame: what it passes to Send, and a layer of
\* another type than the last layer state has
CreateFrameChoices(ls) ==
    SendChoicesOf(ls)
    \cup {[layer |-> IF Last(ls).type = "udpState"
                     THEN TCP(Unset, Unset, Unset, Unset, Set(TCPFlagAck))
                     ELSE UDP(Unset, Unset),
           additionalLayers |-> <<Payload(Set(Zeros(MaxPayloadLen)))>>]}

\* a CreateFrame call: its arguments and the frame it returned, none (<<>>)
\* when it failed the test
CreateFrameReturn(layer, additionalLayers, frame) ==
    [op |-> "CreateFrame", layer |-> layer,
     additionalLayers |-> additionalLayers, frame |-> frame]

\* CreateFrame that returns the layers of the layer states when the override
\* does not merge
CreateFrameCall_IgnoresMergeError ==
    /\ pc = "idle"
    /\ created = NoCall
    /\ \E c \in CreateFrameChoices(layerStates) :
        /\ pc' = "idle"
        /\ created' = CreateFrameReturn(c.layer, c.additionalLayers,
                IF CreateFrameOk(layerStates, c.layer)
                THEN CreateFrame(layerStates, c.layer, c.additionalLayers)
                ELSE CreateFrame(layerStates, NilLayer, c.additionalLayers))
        /\ layerStates' = CreateFrameStates(layerStates, c.layer)
    /\ ForgetExpectFrame
    /\ UNCHANGED <<injected, now, hsX, expectRet>>
    /\ UNCHANGED <<resVars, layerVars, parseVars, macVars, peer, hostVars>>

\* the test calls CreateFrame and keeps the frame
CreateFrameCall ==
    /\ pc = "idle"
    /\ created = NoCall
    /\ \E c \in CreateFrameChoices(layerStates) :
        IF ~CreateFrameOk(layerStates, c.layer)
        THEN /\ pc' = "fatal"
             /\ created' = CreateFrameReturn(c.layer, c.additionalLayers, <<>>)
             /\ UNCHANGED layerStates
        ELSE /\ pc' = "idle"
             /\ created' = CreateFrameReturn(c.layer, c.additionalLayers,
                    CreateFrame(layerStates, c.layer, c.additionalLayers))
             /\ layerStates' = CreateFrameStates(layerStates, c.layer)
    /\ ForgetExpectFrame
    /\ UNCHANGED <<injected, now, hsX, expectRet>>
    /\ UNCHANGED <<resVars, layerVars, parseVars, macVars, peer, hostVars>>

\* the test calls SendFrame with the frame it has from CreateFrame, and lets
\* go of the frame
SendFrameCreated ==
    /\ pc = "idle"
    /\ created # NoCall
    /\ Len(injected) < MaxSends
    /\ DoSendFrame(layerStates, created.frame, "idle")
    /\ created' = NoCall
    /\ ForgetExpectFrame
    /\ UNCHANGED <<now, hsX, expectRet>>
    /\ UNCHANGED <<resVars, layerVars, parseVars, macVars, peer, hostVars>>

\* a test that makes its frames with CreateFrame and sends them, or not, any
\* time later
FrameNext ==
    \/ CreateFrameCall
    \/ SendFrameCreated
    \/ ExpectFrameCall
    \/ ExpectFrameDeadline
    \/ ExpectFrameRecvData

FrameSpec == LifeInit /\ [][FrameNext]_vars

\* the layers a test passes to Expect
ExpectChoices ==
    {TCP(Unset, Unset, Unset, Unset, Set(TCPFlagAck)),
     TCP(Unset, Unset, Set(Seq32(0, 7)), Unset, Unset)}

\* Connection.Expect up to the head of the loop of ExpectFrame: layers is nil
\* but for the last layer state's slot
ExpectCall ==
    /\ pc = "idle"
    /\ \E layer \in ExpectChoices, t \in Timeouts :
        /\ now + t <= MaxTime
        /\ EnterExpectFrame([i \in 1..Len(layerStates) |->
                                IF i = Len(layerStates) THEN layer ELSE NilLayer],
                            t, "Expect")
    /\ pc' = "ExpectFrame"
    /\ expectRet' = NoCall
    /\ UNCHANGED <<layerStates, injected, now, hsX, created>>
    /\ UNCHANGED <<resVars, layerVars, parseVars, macVars, peer, hostVars>>

\* Expect that returns the innermost layer of the frame
ExpectReturn_Innermost ==
    /\ pc = "Expect"
    /\ IF ret.kind # "ok"
       THEN /\ expectRet' = [op |-> "Expect", layer |-> NilLayer, err |-> Set(ret)]
            /\ pc' = "idle"
       ELSE /\ expectRet' = [op |-> "Expect", layer |-> Last(ret.frame), err |-> Unset]
            /\ pc' = "idle"
    /\ UNCHANGED <<layerStates, injected, now, hsX, created>>
    /\ UNCHANGED <<expectVars, resVars, layerVars, parseVars, macVars, peer, hostVars>>

\* Connection.Expect after ExpectFrame returned
ExpectReturn ==
    /\ pc = "Expect"
    /\ IF ret.kind # "ok"
       THEN /\ expectRet' = [op |-> "Expect", layer |-> NilLayer, err |-> Set(ret)]
            /\ pc' = "idle"
       ELSE IF Len(layerStates) - 1 < Len(ret.frame)
       THEN /\ expectRet' = [op |-> "Expect", layer |-> ret.frame[Len(layerStates)],
                             err |-> Unset]
            /\ pc' = "idle"
       ELSE /\ pc' = "fatal"
            /\ UNCHANGED expectRet
    /\ UNCHANGED <<layerStates, injected, now, hsX, created>>
    /\ UNCHANGED <<expectVars, resVars, layerVars, parseVars, macVars, peer, hostVars>>

\* a test that waits for segments with Expect
ExpectNext ==
    \/ ExpectCall
    \/ ExpectFrameDeadline
    \/ ExpectFrameRecv
    \/ ExpectReturn

ExpectSpec == Init /\ [][ExpectNext]_vars

\* the test's thread runs on, and sniffer.Recv returns within its timeout
FairSpec == Spec /\ WF_vars(ExpectFrameDeadline) /\ WF_vars(ExpectFrameRecv)

----------------------------------------------------------------------------
(* Layer.merge and Layer.match called on their own. *)

connVars ==
    <<layerStates, injected, now, pc, hsX, expectVars, resVars, heldVars, peer,
      hostVars>>

\* no connection was made
NoConnection ==
    /\ layerStates = <<>>
    /\ injected = <<>>
    /\ now = 0
    /\ pc = "idle"
    /\ caller = "test"
    /\ expLayers = <<>>
    /\ timeout = 0
    /\ deadline = 0
    /\ errs = <<>>
    /\ recvLog = <<>>
    /\ ret = NoReturn
    /\ hsX = Unset
    /\ sniffer = "closed"
    /\ injector = "closed"
    /\ fds = {}
    /\ closeLog = <<>>
    /\ created = NoCall
    /\ expectRet = NoCall
    /\ peer = NoPeer

\* a field that is nil or holds one of the values
Opt(values) == {Unset} \cup {Set(v) : v \in values}

\* the layers a test builds: every combination of set and unset fields, and
\* the nil layer
LayerChoices ==
    {NilLayer}
    \cup {Ether(s, d) : s \in Opt({lMAC}), d \in Opt({lMAC, rMAC})}
    \cup {UDP(s, d) : s \in Opt({lport}), d \in Opt({lport, rport})}
    \cup {TCP(s, d, q, a, f) :
            s \in Opt({lport}), d \in Opt({rport}), q \in Opt({Seq32(0, 7)}),
            a \in Opt({Seq32(0, 9)}), f \in Opt({TCPFlagSyn, TCPFlagAck})}
    \cup {Payload(b) : b \in Opt({Zeros(n) : n \in 0..MaxPayloadLen})}

LayerInit ==
    /\ NoConnection
    /\ NoHostFile
    /\ NoNetdevsCall
    /\ layerL \in LayerChoices
    /\ layerOther \in LayerChoices
    /\ layerRet = NoCall

\* err := l.merge(other): the error, and l after the call
LayerMerge ==
    /\ layerRet = NoCall
    /\ layerRet' = [op |-> "merge",
                    err |-> ~mergeOk(layerL, layerOther),
                    l |-> IF mergeOk(layerL, layerOther)
                          THEN merge(layerL, layerOther) ELSE layerL]
    /\ UNCHANGED <<layerL, layerOther>>
    /\ UNCHANGED <<connVars, parseVars, macVars>>

\* l.match(other)
LayerMatch ==
    /\ layerRet = NoCall
    /\ layerRet' = [op |-> "match", matched |-> matchLayer(layerL, layerOther)]
    /\ UNCHANGED <<layerL, layerOther>>
    /\ UNCHANGED <<connVars, parseVars, macVars>>

LayerNext ==
    \/ LayerMerge
    \/ LayerMatch

LayerSpec == LayerInit /\ [][LayerNext]_vars

----------------------------------------------------------------------------
(* Package netdevs: ParseDevices and MACToIP.  A line of `ip addr show` is *)
(* what the four regular expressions see of it: how it begins, and the     *)
(* text their group captures.  An address text is well formed or not, and  *)
(* a well formed one holds the bytes that it spells.                       *)

MaxLines == 4   \* lines in the output ParseDevices is given

Line(head, text) == [head |-> head, text |-> text]
Malformed == [wellFormed |-> FALSE, addr |-> <<>>, bits |-> 0]
MACText(bytes) == [wellFormed |-> TRUE, addr |-> bytes, bits |-> 0]
CIDRText(addr, bits) == [wellFormed |-> TRUE, addr |-> addr, bits |-> bits]

\* regexp.FindStringSubmatch: m[1] if the line matches, nil if it does not
deviceLine(line) == IF line.head = "device" THEN Set(line.text) ELSE Unset
linkLine(line) == IF line.head = "link" THEN Set(line.text) ELSE Unset
inetLine(line) == IF line.head = "inet" THEN Set(line.text) ELSE Unset
inet6Line(line) == IF line.head = "inet6" THEN Set(line.text) ELSE Unset

\* net.ParseMAC
ParseMACOk(text) == text.wellFormed
ParseMAC(text) == text.addr

\* net.ParseCIDR: the address, and the network it is in (the address with
\* the bits past the prefix cleared, and the prefix length)
ParseCIDROk(text) == text.wellFormed
ParseCIDR(text) ==
    [addr |-> text.addr,
     net |-> [IP |-> [k \in 1..Len(text.addr) |->
                        IF 8 * k <= text.bits THEN text.addr[k] ELSE 0],
              Mask |-> text.bits]]

\* deviceInfos[name] = info
Store(infos, name, info) ==
    [n \in DOMAIN infos \cup {name} |-> IF n = name THEN info ELSE infos[n]]

\* the lines a listing is made of
LineChoices ==
    {Line("device", "lo"), Line("device", "eth0"),
     Line("link", MACText(<<2, 66, 172, 17, 0, 2>>)),
     Line("link", Malformed),
     Line("inet", CIDRText(<<10, 1>>, 8)),
     Line("inet6", CIDRText(<<254, 128>>, 16)),
     Line("other", "")}

\* strings.Split(cmdOutput, "\n") has at least one line
Listings(n) == UNION {[1..k -> LineChoices] : k \in 1..n}

ParseInit ==
    /\ NoConnection
    /\ NoHostFile
    /\ NoLayerCall
    /\ NoMACToIPCall
    /\ cmdOutput \in Listings(MaxLines)
    /\ lineNo = 0
    /\ currentDevice = ""
    /\ currentInfo = DeviceInfo
    /\ deviceInfos = <<>>
    /\ devRet = NoCall

ParseDevicesError == [op |-> "ParseDevices", err |-> TRUE, deviceInfos |-> <<>>]

\* one turn of the loop over the lines
ParseDevicesLine ==
    /\ devRet = NoCall
    /\ lineNo < Len(cmdOutput)
    /\ LET line == cmdOutput[lineNo + 1]
       IN  IF IsSet(deviceLine(line))
           THEN /\ deviceInfos' = IF currentDevice # ""
                                  THEN Store(deviceInfos, currentDevice, currentInfo)
                                  ELSE deviceInfos
                /\ currentInfo' = DeviceInfo
                /\ currentDevice' = Val(deviceLine(line))
                /\ lineNo' = lineNo + 1
                /\ UNCHANGED devRet
           ELSE IF IsSet(linkLine(line))
           THEN IF ~ParseMACOk(Val(linkLine(line)))
                THEN /\ devRet' = ParseDevicesError
                     /\ UNCHANGED <<lineNo, currentDevice, currentInfo, deviceInfos>>
                ELSE /\ currentInfo' =
                            [currentInfo EXCEPT !.MAC = Set(ParseMAC(Val(linkLine(line))))]
                     /\ lineNo' = lineNo + 1
                     /\ UNCHANGED <<currentDevice, deviceInfos, devRet>>
           ELSE IF IsSet(inetLine(line))
           THEN IF ~ParseCIDROk(Val(inetLine(line)))
                THEN /\ devRet' = ParseDevicesError
                     /\ UNCHANGED <<lineNo, currentDevice, currentInfo, deviceInfos>>
                ELSE /\ currentInfo' =
                            [currentInfo EXCEPT
                                !.IPv4Addr = Set(ParseCIDR(Val(inetLine(line))).addr),
                                !.IPv4Net = Set(ParseCIDR(Val(inetLine(line))).net)]
                     /\ lineNo' = lineNo + 1
                     /\ UNCHANGED <<currentDevice, deviceInfos, devRet>>
           ELSE IF IsSet(inet6Line(line))
           THEN IF ~ParseCIDROk(Val(inet6Line(line)))
                THEN /\ devRet' = ParseDevicesError
                     /\ UNCHANGED <<lineNo, currentDevice, currentInfo, deviceInfos>>
                ELSE /\ currentInfo' =
                            [currentInfo EXCEPT
                                !.IPv6Addr = Set(ParseCIDR(Val(inet6Line(line))).addr),
                                !.IPv6Net = Set(ParseCIDR(Val(inet6Line(line))).net)]
                     /\ lineNo' = lineNo + 1
                     /\ UNCHANGED <<currentDevice, deviceInfos, devRet>>
           ELSE /\ lineNo' = lineNo + 1
                /\ UNCHANGED <<currentDevice, currentInfo, deviceInfos, devRet>>
    /\ UNCHANGED cmdOutput
    /\ UNCHANGED <<connVars, layerVars, macVars>>

\* the return after the loop, without the device the listing ends with
ParseDevicesReturn_DropsLast ==
    /\ devRet = NoCall
    /\ lineNo = Len(cmdOutput)
    /\ devRet' = [op |-> "ParseDevices", err |-> FALSE, deviceInfos |-> deviceInfos]
    /\ UNCHANGED <<cmdOutput, lineNo, currentDevice, currentInfo, deviceInfos>>
    /\ UNCHANGED <<connVars, layerVars, macVars>>

\* after the loop: the last device is stored, and the map returned
ParseDevicesReturn ==
    /\ devRet = NoCall
    /\ lineNo = Len(cmdOutput)
    /\ deviceInfos' = IF currentDevice # ""
                      THEN Store(deviceInfos, currentDevice, currentInfo)
                      ELSE deviceInfos
    /\ devRet' = [op |-> "ParseDevices", err |-> FALSE, deviceInfos |-> deviceInfos']
    /\ UNCHANGED <<cmdOutput, lineNo, currentDevice, currentInfo>>
    /\ UNCHANGED <<connVars, layerVars, macVars>>

ParseNext ==
    \/ ParseDevicesLine
    \/ ParseDevicesReturn

ParseSpec == ParseInit /\ [][ParseNext]_vars

\* the bytes a hardware address is made of
ByteChoices == {0, 2, 172, 255}

\* net.HardwareAddr: 6 bytes, or the 8 of an EUI-64
MACChoices == [1..6 -> ByteChoices] \cup {<<2, 66, 172, 255, 254, 17, 0, 2>>}

MACInit ==
    /\ NoConnection
    /\ NoHostFile
    /\ NoLayerCall
    /\ NoParseDevicesCall
    /\ mac \in MACChoices
    /\ macRet = NoCall

\* MACToIP that makes a modified EUI-64 of the address (RFC 4291, appendix A)
MACToIP_ModifiedEUI64(m) ==
    <<254, 128, 0, 0, 0, 0, 0, 0,
      IF (m[1] \div 2) % 2 = 1 THEN m[1] - 2 ELSE m[1] + 2,
      m[2], m[3], 255, 254, m[4], m[5], m[6]>>

\* MACToIP: net.IP{0xfe, 0x80, 0, ..., mac[0], mac[1], mac[2], 0xff, 0xfe,
\* mac[3], mac[4], mac[5]}
MACToIP(m) ==
    <<254, 128, 0, 0, 0, 0, 0, 0,
      m[1], m[2], m[3], 255, 254, m[4], m[5], m[6]>>

MACToIPCall ==
    /\ macRet = NoCall
    /\ macRet' = [op |-> "MACToIP", ip |-> MACToIP(mac)]
    /\ UNCHANGED mac
    /\ UNCHANGED <<connVars, layerVars, parseVars>>

MACNext == MACToIPCall

MACSpec == MACInit /\ [][MACNext]_vars

----------------------------------------------------------------------------
(* Two connections of one test process.  Each has its layer states, its   *)
(* port socket and its sniffer; a sniffer is a raw socket on the device,  *)
(* so each connection receives the frames addressed to either.            *)

\* the ports the kernel has to give
PortChoices == {lport, "lport2"}

\* unix.Bind with port 0: the kernel gives a port that no open socket of the
\* process is bound to; bound is the set of ports that port sockets hold
unix_Bind_AnyPort(bound) == PortChoices
unix_Bind(bound) == PortChoices \ bound

\* pickPort when the sockets of held hold their ports: the next descriptor
\* and a port from the kernel
pickPortNext(held) ==
    {[fd |-> pickPort.fd + 1, localPort |-> p] :
        p \in unix_Bind({h.localPort : h \in held})}

\* the state after two calls of NewTCPIPv4
PairInit ==
    /\ \E rnd \in RandChoices :
        layerStates =
            <<newEtherState(Ether(Unset, Unset), Ether(Unset, Unset)),
              newIPv4State(IPv4(Unset, Unset), IPv4(Unset, Unset)),
              newTCPState(pickPort.fd, pickPort.localPort, rnd,
                          TCP(Unset, Set(rport), Unset, Unset, Unset),
                          TCP(Set(rport), Unset, Unset, Unset, Unset))>>
    /\ FreshConnection
    /\ \E rnd \in RandChoices, second \in pickPortNext({pickPort}) :
        /\ peer =
            [layerStates |->
                <<newEtherState(Ether(Unset, Unset), Ether(Unset, Unset)),
                  newIPv4State(IPv4(Unset, Unset), IPv4(Unset, Unset)),
                  newTCPState(second.fd, second.localPort, rnd,
                              TCP(Unset, Set(rport), Unset, Unset, Unset),
                              TCP(Set(rport), Unset, Unset, Unset, Unset))>>,
             injected |-> <<>>,
             matched |-> <<>>]
        /\ fds = {pickPort.fd, second.fd}

\* the local port of a connection
LocalPort(ls) == Val(Last(ls).out.SrcPort)

\* what the remote end sends while two connections are up: for each, a
\* segment with data that carries its sequence numbers, addressed to its port
\* and addressed to the port of the other
PairFrames(a, b) ==
    LET data == <<Payload(Set(Zeros(MaxPayloadLen)))>>
        To(ls, dport) ==
            Segment(dport, RemoteSeq(ls), Val(ls[3].localSeqNum), TCPFlagAck, data)
    IN  {To(a, LocalPort(a)), To(a, LocalPort(b)),
         To(b, LocalPort(b)), To(b, LocalPort(a))}

\* the test calls Expect on the first connection with an empty TCP layer
PairExpectCall ==
    /\ pc = "idle"
    /\ now + Second <= MaxTime
    /\ EnterExpectFrame(ExpectOf(TCP(Unset, Unset, Unset, Unset, Unset)),
                        Second, "test")
    /\ pc' = "ExpectFrame"
    /\ UNCHANGED <<layerStates, injected, now, hsX>>
    /\ UNCHANGED resVars
    /\ UNCHANGED testVars

\* a turn of the first connection's ExpectFrame
ExpectFrameRecvPair ==
    ExpectFrameTurn(PairFrames(layerStates, peer.layerStates) \cup {<<>>})

\* what the test sends on either: a segment with data
PairSendChoices ==
    {SendOf(TCPFlagAck, <<Payload(Set(Zeros(MaxPayloadLen)))>>)}

\* Send on the first connection
PairSend ==
    /\ pc = "idle"
    /\ Len(injected) < MaxSends - 1
    /\ \E c \in PairSendChoices :
        DoSend(c.layer, c.additionalLayers, "idle")
    /\ ForgetExpectFrame
    /\ UNCHANGED <<now, hsX>>
    /\ UNCHANGED resVars
    /\ UNCHANGED testVars

\* Send on the second connection, which its part of the test calls once
PeerSend ==
    /\ peer.injected = <<>>
    /\ \E c \in PairSendChoices :
        LET ls == CreateFrameStates(peer.layerStates, c.layer)
            frame == CreateFrame(peer.layerStates, c.layer, c.additionalLayers)
        IN  /\ CreateFrameOk(peer.layerStates, c.layer)
            /\ ToBytesOk(frame)
            /\ SendFrameOk(ls, frame)
            /\ peer' = [peer EXCEPT
                    !.layerStates = SendFrameStates(ls, frame),
                    !.injected = Append(@, ToBytes(frame))]
    /\ UNCHANGED <<layerStates, injected, now, pc, hsX, expectVars, resVars>>
    /\ UNCHANGED <<heldVars, layerVars, parseVars, macVars, hostVars>>

\* Expect on the second connection with an empty TCP layer, called once, from
\* the call to the frame that matches: the frames before it leave the states
\* as they are
PeerExpect ==
    /\ peer.matched = <<>>
    /\ \E gotLayers \in PairFrames(peer.layerStates, layerStates) :
        LET layers == ExpectOf(TCP(Unset, Unset, Unset, Unset, Unset))
        IN  /\ Connection_match(peer.layerStates, layers, gotLayers)
            /\ ReceivedOk(peer.layerStates, gotLayers)
            /\ peer' = [peer EXCEPT
                    !.layerStates =
                        ReceivedStates(matchStates(peer.layerStates, layers,
                                                   gotLayers), gotLayers),
                    !.matched = Append(@, gotLayers)]
    /\ UNCHANGED <<layerStates, injected, now, pc, hsX, expectVars, resVars>>
    /\ UNCHANGED <<heldVars, layerVars, parseVars, macVars, hostVars>>

PairNext ==
    \/ PairSend
    \/ PairExpectCall
    \/ ExpectFrameDeadline
    \/ ExpectFrameRecvPair
    \/ PeerSend
    \/ PeerExpect
PairSpec == PairInit /\ [][PairNext]_vars

----------------------------------------------------------------------------
(* UDPIPv4.SendIP, and SendFrame with a frame of fewer layers than the     *)
(* connection has layer states.                                            *)

\* what a test passes to SendIP: nothing, a UDP layer, a UDP layer and a
\* payload, a TCP layer
SendIPChoices ==
    {<<>>,
     <<UDP(Set(lport), Set(rport))>>,
     <<UDP(Set(lport), Set(rport)), Payload(Set(Zeros(MaxPayloadLen)))>>,
     <<TCP(Set(lport), Set(rport), Unset, Unset, Unset)>>}

\* UDPIPv4.SendIP: the outgoing layer of every state but the last, then
\* additionalLayers, handed to SendFrame
SendIP ==
    /\ pc = "idle"
    /\ Last(layerStates).type = "udpState"
    /\ Len(injected) < MaxSends
    /\ \E additionalLayers \in SendIPChoices :
        LET layersToSend ==
                [i \in 1..(Len(layerStates) - 1) |-> outgoing(layerStates[i])]
                \o additionalLayers
        IN  DoSendFrame(layerStates, layersToSend, "idle")
    /\ ForgetExpectFrame
    /\ UNCHANGED <<now, hsX>>
    /\ UNCHANGED resVars
    /\ UNCHANGED testVars

\* the test calls SendFrame with a frame that is a payload and nothing else
SendFramePayload ==
    /\ pc = "idle"
    /\ Len(injected) < MaxSends
    /\ DoSendFrame(layerStates, <<Payload(Set(Zeros(1)))>>, "idle")
    /\ ForgetExpectFrame
    /\ UNCHANGED <<now, hsX>>
    /\ UNCHANGED resVars
    /\ UNCHANGED testVars

\* a test that sends with Send, with SendIP and with SendFrame
WireNext ==
    \/ Send
    \/ SendIP
    \/ SendFramePayload
    \/ ExpectFrameCall
    \/ ExpectFrameDeadline
    \/ ExpectFrameRecvData
WireSpec == LifeInit /\ [][WireNext]_vars

----------------------------------------------------------------------------
(* A test on a TCP or on a UDP connection that sends, expects and closes, *)
(* and on the TCP connection also shakes hands.                            *)

\* Handshake is a method of TCPIPv4
TCPHandshakeCall ==
    /\ Last(layerStates).type = "tcpState"
    /\ HandshakeCall

\* the remote end of a TCP connection answers with segments
TCPExpectFrameRecv ==
    /\ Last(layerStates).type = "tcpState"
    /\ ExpectFrameRecv

FieldNext ==
    \/ Send
    \/ ExpectDataCall
    \/ ConnectionExpectCall
    \/ ExpectFrameDeadline
    \/ TCPExpectFrameRecv
    \/ ExpectFrameRecvData
    \/ TCPHandshakeCall
    \/ HandshakeResume
    \/ Close
FieldSpec == LifeInit /\ [][FieldNext]_vars

----------------------------------------------------------------------------
(* Package host (fsimpl/host): an imported host file.  An int64 is an     *)
(* integer of Width bits in two's complement, so that math.MaxInt64 is    *)
(* within reach of a few calls and the arithmetic keeps its wrap.         *)

MaxInt64 == 2 ^ (Width - 1) - 1
MinInt64 == 0 - 2 ^ (Width - 1)

\* a + b and a - b in int64
Add64(a, b) == ((a + b - MinInt64) % (2 ^ Width)) + MinInt64
Sub64(a, b) == ((a - b - MinInt64) % (2 ^ Width)) + MinInt64

SEEK_SET == "SEEK_SET"
SEEK_CUR == "SEEK_CUR"
SEEK_END == "SEEK_END"
SEEK_DATA == "SEEK_DATA"
SEEK_HOLE == "SEEK_HOLE"

\* the goroutines that call into the file description
Goroutines == {1, 2}

\* syscall.Fstat(i.hostFD, &s): an error, or a size that is not negative
FstatResults ==
    {[err |-> "EIO", Size |-> 0]}
    \cup {[err |-> "nil", Size |-> z] : z \in {0, 2, MaxInt64}}

\* unix.Seek(i.hostFD, offset, whence) for SEEK_DATA and SEEK_HOLE: an error,
\* or a position at or after offset
unixSeekResults(offset) ==
    {[err |-> "ENXIO", n |-> 0 - 1]}
    \cup {[err |-> "nil", n |-> p] : p \in {q \in {offset, offset + 1} :
                                              q >= 0 /\ q <= MaxInt64}}

\* the host's preadv and pwritev through hostfd.GetReadWriterAt: up to count
\* bytes, none of them past the largest offset; offset -1 is the host's own
\* position in a stream; with an error the bytes before it still count
hostIO(offset, count) ==
    LET room == IF offset < 0 THEN count
                ELSE IF MaxInt64 - offset < count THEN MaxInt64 - offset
                ELSE count
    IN  {[n |-> k, err |-> e] : k \in 0..room, e \in {"nil", "EAGAIN"}}

\* readFromHostFD, writeToHostFD: flags are not supported
readFromHostFD(offset, count, flags) ==
    IF flags # 0 THEN {[n |-> 0, err |-> "EOPNOTSUPP"]}
    ELSE hostIO(offset, count)
writeToHostFD(offset, count, flags) ==
    IF flags # 0 THEN {[n |-> 0, err |-> "EOPNOTSUPP"]}
    ELSE hostIO(offset, count)

isBlockError(err) == err = "EAGAIN"

\* what a call gave back: the int64, the error, and what passed between the
\* call and the host: the offset the host was handed for a transfer, or the
\* size Fstat gave a Seek from the end
Return(op, n, err, at) == [op |-> op, n |-> n, err |-> err, at |-> at]
NoTransfer == <<>>

\* Seek with SEEK_CUR and SEEK_END, from base (i.offset or the size): the
\* overflow check is left out
SeekFrom_NoOverflowCheck(cur, base, offset) ==
    IF Add64(base, offset) < 0
    THEN [offset |-> cur, n |-> cur, err |-> "EINVAL"]
    ELSE [offset |-> Add64(base, offset), n |-> Add64(base, offset),
          err |-> "nil"]

\* Seek with SEEK_CUR and SEEK_END that stores the sum before it looks at it
SeekFrom_StoresFirst(cur, base, offset) ==
    IF offset > Sub64(MaxInt64, base)
    THEN [offset |-> cur, n |-> cur, err |-> "EOVERFLOW"]
    ELSE IF Add64(base, offset) < 0
    THEN [offset |-> Add64(base, offset), n |-> Add64(base, offset),
          err |-> "EINVAL"]
    ELSE [offset |-> Add64(base, offset), n |-> Add64(base, offset),
          err |-> "nil"]

\* Seek with SEEK_CUR and SEEK_END, from base (i.offset or the size of the
\* file), with cur the offset at the call: i.offset afterwards and what is
\* returned
SeekFrom(cur, base, offset) ==
    IF offset > Sub64(MaxInt64, base)
    THEN [offset |-> cur, n |-> cur, err |-> "EOVERFLOW"]
    ELSE IF Add64(base, offset) < 0
    THEN [offset |-> cur, n |-> cur, err |-> "EINVAL"]
    ELSE [offset |-> Add64(base, offset), n |-> Add64(base, offset),
          err |-> "nil"]

\* Seek on a seekable file once offsetMu is held; s is what Fstat gave and hs
\* what unix.Seek gave
fileDescription_Seek(cur, offset, whence, s, hs) ==
    CASE whence = SEEK_SET ->
            IF offset < 0
            THEN [offset |-> cur, n |-> cur, err |-> "EINVAL"]
            ELSE [offset |-> offset, n |-> offset, err |-> "nil"]
      [] whence = SEEK_CUR -> SeekFrom(cur, cur, offset)
      [] whence = SEEK_END ->
            IF s.err # "nil"
            THEN [offset |-> cur, n |-> cur, err |-> s.err]
            ELSE SeekFrom(cur, s.Size, offset)
      [] whence \in {SEEK_DATA, SEEK_HOLE} ->
            IF hs.err # "nil"
            THEN [offset |-> cur, n |-> cur, err |-> hs.err]
            ELSE [offset |-> hs.n, n |-> hs.n, err |-> "nil"]
      [] OTHER -> [offset |-> cur, n |-> cur, err |-> "EINVAL"]

\* what callers pass
Whences == {SEEK_SET, SEEK_CUR, SEEK_END, SEEK_DATA, SEEK_HOLE, "SEEK_7"}
SeekOffsets == {MinInt64, 0 - 1, 1, MaxInt64}
PositionChoices == {0, MaxInt64}
FlagChoices == {0, 1}

\* a goroutine between calls, and its first state
NoArgs == [offset |-> 0, whence |-> "none", flags |-> 0]
Idle(task) ==
    [task EXCEPT !.pc = "idle", !.op = "none", !.args = NoArgs, !.n = 0,
                 !.err = "nil", !.tmp = 0, !.calls = @ + 1]
NewTask ==
    [pc |-> "idle", op |-> "none", args |-> NoArgs, n |-> 0, err |-> "nil",
     tmp |-> 0, calls |-> 0]

\* NewFD: the inode of a host descriptor that is seekable or not; i.open has
\* taken the one reference and the descriptor is with the notifier if it
\* would block.  The host keeps its open descriptors, the notifier's
\* descriptors, the calls made on it, what the latest call on the file gave
\* back, and the position the file is at by what the calls gave back: the
\* offset the last Seek gave plus the bytes Read and Write gave since
NewFD(seekable, wouldBlock) ==
    /\ inode = [hostFD |-> 5, seekable |-> seekable, wouldBlock |-> wouldBlock,
                offset |-> 0, offsetMu |-> 0, refs |-> 1]
    /\ host = [fds |-> {5},
               notifier |-> IF wouldBlock THEN {5} ELSE {},
               calls |-> <<>>,
               last |-> NoCall,
               position |-> 0]

HostInit ==
    /\ NoConnection
    /\ NoLayerCall
    /\ NoNetdevsCall
    /\ \E seekable \in BOOLEAN : NewFD(seekable, ~seekable)
    /\ tasks = [t \in Goroutines |-> NewTask]

\* what the host file leaves alone: all of the test bench
benchVars ==
    <<layerStates, injected, now, pc, hsX, expectVars, resVars, heldVars, peer,
      layerVars, parseVars, macVars>>

\* the call of goroutine t is over and gave back r
Returns(t, r) ==
    /\ tasks' = [tasks EXCEPT ![t] = Idle(@)]
    /\ host' = [host EXCEPT !.last = r]

\* PRead that does not ask whether the file is seekable
PReadCall_OnAnyFile(t) ==
    /\ tasks[t].pc = "idle"
    /\ tasks[t].calls < MaxCalls
    /\ \E offset \in PositionChoices, flags \in FlagChoices :
        \E r \in readFromHostFD(offset, MaxCount, flags) :
            Returns(t, Return("PRead", r.n, r.err, <<offset>>))
    /\ UNCHANGED <<inode, benchVars>>

\* PRead and PWrite: ESPIPE on a stream, else the transfer at the offset given
PReadCall(t) ==
    /\ tasks[t].pc = "idle"
    /\ tasks[t].calls < MaxCalls
    /\ \E offset \in PositionChoices, flags \in FlagChoices :
        IF ~inode.seekable
        THEN Returns(t, Return("PRead", 0, "ESPIPE", NoTransfer))
        ELSE \E r \in readFromHostFD(offset, MaxCount, flags) :
                Returns(t, Return("PRead", r.n, r.err, <<offset>>))
    /\ UNCHANGED <<inode, benchVars>>

PWriteCall(t) ==
    /\ tasks[t].pc = "idle"
    /\ tasks[t].calls < MaxCalls
    /\ \E offset \in PositionChoices, flags \in FlagChoices :
        IF ~inode.seekable
        THEN Returns(t, Return("PWrite", 0, "ESPIPE", NoTransfer))
        ELSE \E r \in writeToHostFD(offset, MaxCount, flags) :
                Returns(t, Return("PWrite", r.n, r.err, <<offset>>))
    /\ UNCHANGED <<inode, benchVars>>

\* Read up to i.offsetMu.Lock(): on a stream the whole call, which reads at
\* the host's position and turns a block error into none if bytes came and
\* into ErrWouldBlock if none did
ReadCall(t) ==
    /\ tasks[t].pc = "idle"
    /\ tasks[t].calls < MaxCalls
    /\ \E flags \in FlagChoices :
        IF ~inode.seekable
        THEN \E r \in readFromHostFD(0 - 1, MaxCount, flags) :
                LET err == IF ~isBlockError(r.err) THEN r.err
                           ELSE IF r.n # 0 THEN "nil" ELSE "ErrWouldBlock"
                IN  Returns(t, Return("Read", r.n, err, <<0 - 1>>))
        ELSE /\ tasks' = [tasks EXCEPT ![t].pc = "Lock", ![t].op = "Read",
                                       ![t].args.flags = flags]
             /\ UNCHANGED host
    /\ UNCHANGED <<inode, benchVars>>

\* Write up to i.offsetMu.Lock(): on a stream the whole call
WriteCall(t) ==
    /\ tasks[t].pc = "idle"
    /\ tasks[t].calls < MaxCalls
    /\ \E flags \in FlagChoices :
        IF ~inode.seekable
        THEN \E r \in writeToHostFD(0 - 1, MaxCount, flags) :
                LET err == IF isBlockError(r.err) THEN "ErrWouldBlock" ELSE r.err
                IN  Returns(t, Return("Write", r.n, err, <<0 - 1>>))
        ELSE /\ tasks' = [tasks EXCEPT ![t].pc = "Lock", ![t].op = "Write",
                                       ![t].args.flags = flags]
             /\ UNCHANGED host
    /\ UNCHANGED <<inode, benchVars>>

\* Seek up to i.offsetMu.Lock(): on a stream the whole call
SeekCall(t) ==
    /\ tasks[t].pc = "idle"
    /\ tasks[t].calls < MaxCalls
    /\ \E offset \in SeekOffsets, whence \in Whences :
        IF ~inode.seekable
        THEN Returns(t, Return("Seek", 0, "ESPIPE", NoTransfer))
        ELSE /\ tasks' = [tasks EXCEPT ![t].pc = "Lock", ![t].op = "Seek",
                                       ![t].args.offset = offset,
                                       ![t].args.whence = whence]
             /\ UNCHANGED host
    /\ UNCHANGED <<inode, benchVars>>

\* i.offsetMu.Lock() that does not wait
offsetMu_Lock_NoWait(t) ==
    /\ tasks[t].pc = "Lock"
    /\ inode' = [inode EXCEPT !.offsetMu = t]
    /\ tasks' = [tasks EXCEPT ![t].pc = "Locked"]
    /\ UNCHANGED <<host, benchVars>>

\* i.offsetMu.Lock(): waits until no goroutine holds the mutex
offsetMu_Lock(t) ==
    /\ tasks[t].pc = "Lock"
    /\ inode.offsetMu = 0
    /\ inode' = [inode EXCEPT !.offsetMu = t]
    /\ tasks' = [tasks EXCEPT ![t].pc = "Locked"]
    /\ UNCHANGED <<host, benchVars>>

\* Read and Write with the mutex: the transfer at i.offset
TransferAtOffset(t) ==
    /\ tasks[t].pc = "Locked"
    /\ tasks[t].op \in {"Read", "Write"}
    /\ \E r \in IF tasks[t].op = "Read"
                THEN readFromHostFD(inode.offset, MaxCount, tasks[t].args.flags)
                ELSE writeToHostFD(inode.offset, MaxCount, tasks[t].args.flags) :
        tasks' = [tasks EXCEPT ![t].pc = "Add", ![t].n = r.n, ![t].err = r.err,
                               ![t].args.offset = inode.offset]
    /\ UNCHANGED <<inode, host, benchVars>>

\* i.offset += n: the load
OffsetLoad(t) ==
    /\ tasks[t].pc = "Add"
    /\ tasks' = [tasks EXCEPT ![t].pc = "Store", ![t].tmp = inode.offset]
    /\ UNCHANGED <<inode, host, benchVars>>

\* i.offset += n: the store; then i.offsetMu.Unlock() and the return
OffsetStore(t) ==
    /\ tasks[t].pc = "Store"
    /\ inode' = [inode EXCEPT !.offset = Add64(tasks[t].tmp, tasks[t].n),
                              !.offsetMu = 0]
    /\ tasks' = [tasks EXCEPT ![t] = Idle(@)]
    /\ host' = [host EXCEPT
            !.last = Return(tasks[t].op, tasks[t].n, tasks[t].err,
                            <<tasks[t].args.offset>>),
            !.position = Add64(@, tasks[t].n)]
    /\ UNCHANGED benchVars

\* Seek with the mutex, to the deferred Unlock and the return
SeekLocked(t) ==
    /\ tasks[t].pc = "Locked"
    /\ tasks[t].op = "Seek"
    /\ \E s \in FstatResults, hs \in unixSeekResults(tasks[t].args.offset) :
        LET r == fileDescription_Seek(inode.offset, tasks[t].args.offset,
                                      tasks[t].args.whence, s, hs)
        IN  /\ inode' = [inode EXCEPT !.offset = r.offset, !.offsetMu = 0]
            /\ tasks' = [tasks EXCEPT ![t] = Idle(@)]
            /\ host' = [host EXCEPT
                    !.last = Return("Seek", r.n, r.err,
                                    IF tasks[t].args.whence = SEEK_END
                                       /\ s.err = "nil"
                                    THEN <<s.Size>> ELSE NoTransfer),
                    !.position = IF r.err = "nil" THEN r.n ELSE @]
    /\ UNCHANGED benchVars

HostNext ==
    \E t \in Goroutines :
        \/ PReadCall(t)
        \/ PWriteCall(t)
        \/ ReadCall(t)
        \/ WriteCall(t)
        \/ SeekCall(t)
        \/ offsetMu_Lock(t)
        \/ TransferAtOffset(t)
        \/ OffsetLoad(t)
        \/ OffsetStore(t)
        \/ SeekLocked(t)
HostSpec == HostInit /\ [][HostNext]_vars

----------------------------------------------------------------------------
(* The references on the inode of a host file.  refs.AtomicRefCount counts *)
(* them: IncRef adds one to a count that is not zero, DecRefWithDestructor *)
(* takes one off in one atomic step and calls the destructor if that was   *)
(* the last.  A goroutine gives up only references it holds.               *)

\* a goroutine and the references it holds; the one of NewFD is with the
\* first
RefInit ==
    /\ NoConnection
    /\ NoLayerCall
    /\ NoNetdevsCall
    /\ \E seekable \in BOOLEAN, wouldBlock \in BOOLEAN : NewFD(seekable, wouldBlock)
    /\ tasks = [t \in Goroutines |->
                    [pc |-> "idle", held |-> IF t = 1 THEN 1 ELSE 0]]

\* i.IncRef(), by a goroutine that was handed the inode by one that holds it
IncRef(t) ==
    /\ tasks[t].pc = "idle"
    /\ inode.refs > 0
    /\ inode.refs < MaxRefs
    /\ inode' = [inode EXCEPT !.refs = @ + 1]
    /\ tasks' = [tasks EXCEPT ![t].held = @ + 1]
    /\ host' = [host EXCEPT !.last = [op |-> "IncRef"]]
    /\ UNCHANGED benchVars

\* DecRefWithDestructor that calls the destructor every time
DecRef_DestroysEveryTime(t) ==
    /\ tasks[t].pc = "idle"
    /\ tasks[t].held > 0
    /\ inode' = [inode EXCEPT !.refs = @ - 1]
    /\ tasks' = [tasks EXCEPT ![t].held = @ - 1, ![t].pc = "Destroy"]
    /\ host' = [host EXCEPT !.last = [op |-> "DecRef"]]
    /\ UNCHANGED benchVars

\* i.DecRef(): i.AtomicRefCount.DecRefWithDestructor(i.Destroy), up to the
\* call of the destructor
DecRef(t) ==
    /\ tasks[t].pc = "idle"
    /\ tasks[t].held > 0
    /\ inode' = [inode EXCEPT !.refs = @ - 1]
    /\ tasks' = [tasks EXCEPT ![t].held = @ - 1,
                              ![t].pc = IF inode.refs = 1 THEN "Destroy"
                                        ELSE "idle"]
    /\ host' = [host EXCEPT !.last = [op |-> "DecRef"]]
    /\ UNCHANGED benchVars

\* Destroy up to unix.Close: fdnotifier.RemoveFD if the descriptor would block
Destroy(t) ==
    /\ tasks[t].pc = "Destroy"
    /\ host' = IF inode.wouldBlock
               THEN [host EXCEPT
                        !.notifier = @ \ {inode.hostFD},
                        !.calls = Append(@, [op |-> "RemoveFD",
                                             fd |-> inode.hostFD])]
               ELSE host
    /\ tasks' = [tasks EXCEPT ![t].pc = "Close"]
    /\ UNCHANGED <<inode, benchVars>>

\* Destroy from unix.Close on: an error of it is logged and Destroy returns
DestroyClose(t) ==
    /\ tasks[t].pc = "Close"
    /\ \E c \in unixClose(inode.hostFD, host.fds) :
        host' = [host EXCEPT
            !.fds = c.fds,
            !.calls = Append(@, [op |-> "Close", fd |-> inode.hostFD]),
            !.last = [op |-> "Close", err |-> c.err]]
    /\ tasks' = [tasks EXCEPT ![t].pc = "idle"]
    /\ UNCHANGED <<inode, benchVars>>

RefNext ==
    \E t \in Goroutines :
        \/ IncRef(t)
        \/ DecRef(t)
        \/ Destroy(t)
        \/ DestroyClose(t)
RefSpec == RefInit /\ [][RefNext]_vars

----------------------------------------------------------------------------
(* Vocabulary of the properties. *)

\* v + 1 and v + n modulo 2^32, by counting
Succ32(v) ==
    IF v[2] < Half - 1 THEN <<v[1], v[2] + 1>>
    ELSE IF v[1] < Half - 1 THEN <<v[1] + 1, 0>>
    ELSE <<0, 0>>

RECURSIVE Plus32(_, _)
Plus32(v, n) == IF n = 0 THEN v ELSE Plus32(Succ32(v), n - 1)

\* the n below 2^16 with b + n = a modulo 2^32, or -1 when there is none
Distance32(a, b) ==
    LET lo == a[2] - b[2]
        borrow == IF lo < 0 THEN 1 ELSE 0
        hi == (a[1] - b[1] - borrow) % Half
    IN  IF hi = 0 THEN lo + borrow * Half ELSE 0 - 1

\* the bytes of the layers after layer i of a frame
RECURSIVE NestedBytes(_, _)
NestedBytes(frame, i) ==
    IF i >= Len(frame) THEN 0
    ELSE (IF frame[i + 1].type = "Payload" THEN Len(frame[i + 1].Bytes[1]) ELSE 0)
         + NestedBytes(frame, i + 1)

HasFlag(tcp, flag) == (tcp.Flags[1] \div flag) % 2 = 1
SynOrFin(tcp) == IF HasFlag(tcp, TCPFlagSyn) \/ HasFlag(tcp, TCPFlagFin) THEN 1 ELSE 0

tcpOf(ls) == ls[3]
local == tcpOf(layerStates).localSeqNum[1]
remote == tcpOf(layerStates).remoteSeqNum[1]

\* a step that sends a frame, and the frame as it went on the wire
SendStep == Len(injected') = Len(injected) + 1
SentFrame == parse(Last(injected'))

\* a step in which ExpectFrame matches the frame it got
MatchStep == pc = "ExpectFrame" /\ ret'.kind = "ok"

\* a step in which recvFrame returns a frame, and that frame
RecvStep == Len(recvLog') = Len(recvLog) + 1 /\ Last(recvLog') # <<>>
GotLayers == Last(recvLog')

----------------------------------------------------------------------------
(* Properties. *)

\* C1: tcpState.sent advances localSeqNum by the bytes of the layers after
\* the TCP layer if finSent was false before, and by 1 more if the segment has
\* SYN or FIN; finSent becomes true if the segment has FIN; all modulo 2^32.
C1_SentAdvancesLocal ==
    [][SendStep =>
        LET s == tcpOf(layerStates)
            tcp == SentFrame[3]
            n == (IF ~s.finSent THEN NestedBytes(SentFrame, 3) ELSE 0) + SynOrFin(tcp)
        IN  /\ tcpOf(layerStates').localSeqNum = <<Plus32(s.localSeqNum[1], n)>>
            /\ tcpOf(layerStates').finSent = (s.finSent \/ HasFlag(tcp, TCPFlagFin))
            /\ tcpOf(layerStates').remoteSeqNum = s.remoteSeqNum]_vars

\* a FIN with payload was sent as the first FIN, and localSeqNum is past both
C1_Witness ==
    /\ Len(injected) = 1
    /\ LET f == parse(injected[1])
       IN  /\ HasFlag(f[3], TCPFlagFin)
           /\ NestedBytes(f, 3) = MaxPayloadLen
           /\ local = Plus32(f[3].SeqNum[1], MaxPayloadLen + 1)
    /\ tcpOf(layerStates).finSent

\* C2: tcpState.received sets remoteSeqNum to the received sequence number
\* plus 1 for SYN or FIN plus the bytes of the layers after the TCP layer,
\* modulo 2^32, whatever remoteSeqNum was.
C2_ReceivedSetsRemote ==
    [][MatchStep =>
        LET f == ret'.frame
        IN  tcpOf(layerStates').remoteSeqNum =
                <<Plus32(f[3].SeqNum[1], SynOrFin(f[3]) + NestedBytes(f, 3))>>]_vars

\* a frame matched whose sequence number is not the remoteSeqNum known before
\* (the one the expectation recorded for an earlier frame of the call had)
C2_Witness ==
    /\ ret.kind = "ok"
    /\ remote = Plus32(ret.frame[3].SeqNum[1],
                       SynOrFin(ret.frame[3]) + NestedBytes(ret.frame, 3))
    /\ \E k \in 1..Len(errs) :
        /\ errs[k].want # <<>>
        /\ errs[k].want[3].SeqNum # <<>>
        /\ errs[k].want[3].SeqNum # ret.frame[3].SeqNum

\* C3: sequence numbers advance modulo 2^32: the new localSeqNum of a send
\* and the new remoteSeqNum of a receive are the advance away from the old
\* value around the 32-bit wrap, and 0xFFFFFFFE advanced by 3 is 1.
C3_AdvanceWraps ==
    [][/\ SendStep =>
            LET s == tcpOf(layerStates)
                n == (IF ~s.finSent THEN NestedBytes(SentFrame, 3) ELSE 0)
                     + SynOrFin(SentFrame[3])
            IN  /\ Distance32(tcpOf(layerStates').localSeqNum[1], s.localSeqNum[1]) = n
                /\ (s.localSeqNum[1] = <<Half - 1, Half - 2>> /\ n = 3)
                        => tcpOf(layerStates').localSeqNum[1] = <<0, 1>>
       /\ MatchStep =>
            LET f == ret'.frame
                n == SynOrFin(f[3]) + NestedBytes(f, 3)
            IN  /\ Distance32(tcpOf(layerStates').remoteSeqNum[1], f[3].SeqNum[1]) = n
                /\ (f[3].SeqNum[1] = <<Half - 1, Half - 2>> /\ n = 3)
                        => tcpOf(layerStates').remoteSeqNum[1] = <<0, 1>>]_vars

\* localSeqNum went from 0xFFFFFFFE around the wrap in a send, and
\* remoteSeqNum is past the wrap after a frame numbered 0xFFFFFFFE
C3_Witness ==
    /\ Len(injected) = 1
    /\ parse(injected[1])[3].SeqNum[1] = <<Half - 1, Half - 2>>
    /\ local[1] = 0
    /\ ret.kind = "ok"
    /\ ret.frame[3].SeqNum[1] = <<Half - 1, Half - 2>>
    /\ remote[1] = 0

\* Handshake has returned and the test has made no call since
HandshakeReturned == pc = "idle" /\ caller = "Handshake"

\* C4 as stated: after Handshake, localSeqNum is the x of before plus 1 and
\* remoteSeqNum is the sequence number of the captured SYN-ACK plus 1.
C4_HandshakeRemoteIsSynAckPlusOne ==
    HandshakeReturned =>
        /\ local = Plus32(hsX[1], 1)
        /\ remote = Plus32(tcpOf(layerStates).synAck[1].SeqNum[1], 1)

\* C4 as amended: after Handshake, localSeqNum is the x of before plus 1 and
\* remoteSeqNum is the sequence number of the captured SYN-ACK plus 1 plus the
\* bytes of the layers after the TCP layer of the captured frame.
C4_HandshakeSeqNums ==
    HandshakeReturned =>
        /\ tcpOf(layerStates).synAck = <<ret.frame[3]>>
        /\ local = Plus32(hsX[1], 1)
        /\ remote = Plus32(tcpOf(layerStates).synAck[1].SeqNum[1],
                           1 + NestedBytes(ret.frame, 3))

\* Handshake returned after a SYN-ACK that carried payload
C4_Witness ==
    /\ HandshakeReturned
    /\ NestedBytes(ret.frame, 3) = MaxPayloadLen
    /\ local = Plus32(hsX[1], 1)
    /\ remote = Plus32(ret.frame[3].SeqNum[1], 1 + MaxPayloadLen)

\* C5: Handshake sends the SYN-only segment first and then waits a second
\* for SYN-ACK; it sends nothing while it waits; it sends the ACK-only segment
\* only once a frame with exactly SYN and ACK has been matched in time; with no
\* such frame the test is failed and nothing more is sent.
C5_HandshakeOrder ==
    [][/\ (hsX = <<>> /\ hsX' # <<>>) =>
            /\ SendStep
            /\ SentFrame[3].Flags = <<TCPFlagSyn>>
            /\ pc' = "ExpectFrame"
            /\ deadline' = now + Second
            /\ expLayers'[3].Flags = <<TCPFlagSyn + TCPFlagAck>>
       /\ (pc = "ExpectFrame" /\ caller = "Handshake") => injected' = injected
       /\ (pc = "Handshake" /\ SendStep) =>
            /\ ret.kind = "ok"
            /\ ret.frame[3].Flags = <<TCPFlagSyn + TCPFlagAck>>
            /\ now <= deadline
            /\ SentFrame[3].Flags = <<TCPFlagAck>>
       /\ (pc = "Handshake" /\ ret.kind # "ok") =>
            /\ pc' = "fatal"
            /\ injected' = injected
       /\ pc = "fatal" => injected' = injected]_vars

\* Handshake returned: the SYN went out, then SYN-ACK matched, then the ACK
C5_Witness ==
    /\ HandshakeReturned
    /\ Len(injected) = 2
    /\ parse(injected[1])[3].Flags = <<TCPFlagSyn>>
    /\ ret.frame[3].Flags = <<TCPFlagSyn + TCPFlagAck>>
    /\ parse(injected[2])[3].Flags = <<TCPFlagAck>>

\* C6: a captured frame that does not match never ends ExpectFrame, which
\* stays in its loop; a captured frame that matches is returned, however many
\* frames that did not match came before it.
C6_MismatchNeverEndsTheCall ==
    [][(pc = "ExpectFrame" /\ RecvStep) =>
        IF Connection_match(layerStates, expLayers, GotLayers)
        THEN ret' = Matched(GotLayers) /\ pc' # "ExpectFrame"
        ELSE ret' = NoReturn /\ pc' = "ExpectFrame" /\ deadline' = deadline]_vars

\* a frame matched after a frame that did not
C6_Witness ==
    /\ ret.kind = "ok"
    /\ Len(errs) >= 1
    /\ Len(recvLog) = Len(errs) + 1

\* C7: ExpectFrame called with a timeout of zero or less returns the timeout
\* error in its first turn, and sniffer.Recv is not called.
C7_NoPollWithoutTime ==
    [][(pc = "ExpectFrame" /\ recvLog = <<>> /\ timeout <= 0) =>
        /\ ret'.kind = "timeout"
        /\ ret'.frame = <<>>
        /\ recvLog' = <<>>
        /\ now' = now
        /\ pc' # "ExpectFrame"]_vars

\* ExpectFrame returned the timeout error for a timeout of zero, no Recv made
C7_Witness ==
    /\ pc = "idle"
    /\ ret.kind = "timeout"
    /\ timeout = 0
    /\ recvLog = <<>>

\* C8: every call of ExpectFrame returns, with a matched frame or with the
\* timeout error, whatever the sniffer delivers: the deadline stays as set at
\* entry, a poll never runs past it, and a turn with no time left returns.
C8_ExpectFrameReturns ==
    /\ [](pc = "ExpectFrame" => <>(pc # "ExpectFrame"))
    /\ [][pc = "ExpectFrame" =>
            /\ deadline' = deadline
            /\ Len(recvLog') > Len(recvLog) => (now < now' /\ now' <= deadline)
            /\ Until(deadline, now) <= 0 => ret'.kind = "timeout"
            /\ pc' # "ExpectFrame" =>
                    \/ ret'.kind = "ok" /\ ret'.frame # <<>>
                    \/ ret'.kind = "timeout" /\ ret'.frame = <<>>]_vars

\* the sniffer delivered frames that did not match until the deadline, and
\* ExpectFrame returned the timeout error
C8_Witness ==
    /\ pc = "idle"
    /\ ret.kind = "timeout"
    /\ Len(errs) = Len(recvLog)
    /\ Len(errs) >= 2
    /\ now = deadline

\* C9: on a match ExpectFrame calls received on every layer state with the
\* layer of the matched frame at the same index, and returns that frame and
\* no error.
C9_MatchUpdatesEveryLayerState ==
    [][MatchStep =>
        /\ ret' = Matched(GotLayers)
        /\ \A i \in 1..Len(layerStates) :
                layerStates'[i] = received(layerStates[i], GotLayers, i)]_vars

\* a frame with payload matched and the TCP state took its sequence number
C9_Witness ==
    /\ pc = "idle"
    /\ caller = "test"
    /\ ret.kind = "ok"
    /\ Len(ret.frame) = 4
    /\ remote = Plus32(ret.frame[3].SeqNum[1], MaxPayloadLen)

\* the frames sniffer.Recv returned during the call
Captured == SelectSeq(recvLog, LAMBDA f : f # <<>>)

\* C10: the timeout error of ExpectFrame carries one got/want record for every
\* frame captured during the call, in order, and no frame is returned.
C10_TimeoutReportsEveryMismatch ==
    ret.kind = "timeout" =>
        /\ ret.frame = <<>>
        /\ Len(ret.errs) = Len(Captured)
        /\ \A k \in 1..Len(Captured) :
            /\ ret.errs[k].got = Captured[k]
            /\ ret.errs[k].want = Connection_incoming(layerStates, Captured[k])

\* a call timed out after two different frames that did not match
C10_Witness ==
    /\ ret.kind = "timeout"
    /\ Len(ret.errs) = 2
    /\ ret.errs[1].got # ret.errs[2].got
    /\ ret.errs[1].want # <<>>

\* what ExpectFrame holds layer i of a captured frame against: the layer the
\* state expects with the fields the caller set laid over it, or the caller's
\* layer alone past the layer states
StateExpects(i, got) == incoming(layerStates[i], got[i])

TypesFit(i, got) ==
    i <= Len(layerStates) =>
        /\ StateExpects(i, got).type # "nil"
        /\ expLayers[i].type \in {"nil", StateExpects(i, got).type}

Overlay(base, over) ==
    IF over.type = "nil" THEN base
    ELSE [f \in DOMAIN base |-> IF f # "type" /\ over[f] # <<>> THEN over[f] ELSE base[f]]

Expected(i, got) ==
    IF i <= Len(layerStates) THEN Overlay(StateExpects(i, got), expLayers[i])
    ELSE expLayers[i]

\* every field that want sets has the same value in got
Agrees(want, got) ==
    \/ want.type = "nil"
    \/ /\ want.type = got.type
       /\ \A f \in DOMAIN want \ {"type"} : want[f] = <<>> \/ want[f] = got[f]

\* the captured frame has what every layer asked of it asks, layer by layer
AgreesWhereAsked(got) ==
    /\ Len(got) >= Len(layerStates)
    /\ \A i \in 1..Len(expLayers) :
        i <= Len(got) => TypesFit(i, got) /\ Agrees(Expected(i, got), got[i])

\* C11: a captured frame with fewer layers than the expectation, or fewer than
\* the connection has layer states, never matches, whatever its fields hold:
\* ExpectFrame stays in its loop and no layer state changes.
C11_FewerLayersNeverMatch ==
    [][(pc = "ExpectFrame" /\ RecvStep
            /\ (Len(GotLayers) < Len(expLayers) \/ Len(GotLayers) < Len(layerStates)))
        => /\ ~MatchStep
           /\ pc' = "ExpectFrame"
           /\ layerStates' = layerStates]_vars

\* ExpectData asked for a payload layer, and the call did not take a segment
\* without one that has every field asked for nor a frame of two layers
C11_Witness ==
    /\ Len(expLayers) = 4
    /\ Len(errs) = 2
    /\ \E k \in 1..2 : Len(errs[k].got) < Len(layerStates)
    /\ \E k \in 1..2 :
        /\ Len(errs[k].got) = 3
        /\ AgreesWhereAsked(errs[k].got)

\* C12: a captured frame with more layers than the expectation matches when
\* every layer of the expectation matches the captured layer at its index.
C12_ExtraLayersStillMatch ==
    [][(pc = "ExpectFrame" /\ RecvStep
            /\ Len(GotLayers) > Len(expLayers) /\ AgreesWhereAsked(GotLayers))
        => /\ MatchStep
           /\ ret' = Matched(GotLayers)]_vars

\* a segment with a payload layer matched an expectation of three layers
C12_Witness ==
    /\ ret.kind = "ok"
    /\ Len(expLayers) = 3
    /\ Len(ret.frame) = 4
    /\ ret.frame[4].type = "Payload"
    /\ Len(recvLog) = 1

\* the override does not merge: a layer of it has another type than the layer
\* the state expects
MergeFails(got) ==
    /\ Len(got) >= Len(layerStates)
    /\ \A i \in 1..Len(layerStates) : StateExpects(i, got).type # "nil"
    /\ \E i \in 1..Len(layerStates) :
        i <= Len(expLayers) /\ ~TypesFit(i, got)

\* C13: a captured frame matches exactly when it has the layers of the
\* expected frame of the states with the caller's expectation laid over it;
\* when the overlay fails on a layer type the frame does not match, the test
\* is not failed and ExpectFrame returns nothing: it records the frame and
\* polls again.
C13_MergeFailureIsNoMatch ==
    [][(pc = "ExpectFrame" /\ RecvStep) =>
        /\ MatchStep <=> (Len(GotLayers) >= Len(expLayers) /\ AgreesWhereAsked(GotLayers))
        /\ MergeFails(GotLayers) =>
            /\ pc' = "ExpectFrame"
            /\ ret' = NoReturn
            /\ layerStates' = layerStates
            /\ errs' = Append(errs, [got |-> GotLayers,
                                     want |-> [i \in 1..Len(layerStates) |->
                                                StateExpects(i, GotLayers)]])]_vars

\* a segment that has every field the states expect did not match an
\* expectation with a UDP layer, and the call went on to its timeout
C13_Witness ==
    /\ pc = "idle"
    /\ ret.kind = "timeout"
    /\ expLayers[3].type = "UDP"
    /\ \E k \in 1..Len(ret.errs) :
        /\ Len(ret.errs[k].got) >= 3
        /\ \A i \in 1..3 : Agrees(ret.errs[k].want[i], ret.errs[k].got[i])

\* the caller's expectation sets the ack number
CallerSetsAckNum ==
    /\ Len(expLayers) >= 3
    /\ expLayers[3].type = "TCP"
    /\ expLayers[3].AckNum # <<>>

\* the captured frame has all that is asked of it, its ack number left aside
AgreesButForAckNum(got) ==
    /\ Len(got) >= Len(expLayers)
    /\ \A i \in 1..Len(expLayers) :
        /\ TypesFit(i, got)
        /\ Agrees(IF i = 3 THEN [Expected(i, got) EXCEPT !.AckNum = <<>>]
                  ELSE Expected(i, got), got[i])

\* C15: the TCP layer a captured segment is held against asks for an ack
\* number of localSeqNum only if the segment has the ACK flag; of a segment
\* without it no ack number is asked, unless the in template or the caller
\* sets one.
C15_AckNumOnlyWithAckFlag ==
    [][(pc = "ExpectFrame" /\ RecvStep /\ Len(GotLayers) >= 3
            /\ GotLayers[3].type = "TCP") =>
        LET got == GotLayers[3]
            s == tcpOf(layerStates)
        IN  /\ (~MatchStep) =>
                Last(errs').want[3].AckNum =
                    IF HasFlag(got, TCPFlagAck) THEN s.localSeqNum ELSE s.in.AckNum
            /\ (HasFlag(got, TCPFlagAck) /\ ~CallerSetsAckNum) =>
                (MatchStep <=> /\ AgreesButForAckNum(GotLayers)
                               /\ got.AckNum = s.localSeqNum)
            /\ (~HasFlag(got, TCPFlagAck) /\ ~CallerSetsAckNum /\ s.in.AckNum = <<>>) =>
                (MatchStep <=> AgreesButForAckNum(GotLayers))]_vars

\* a segment without the ACK flag matched though its ack number is not
\* localSeqNum, after a segment with the ACK flag and that ack number did not
C15_Witness ==
    /\ ret.kind = "ok"
    /\ ~HasFlag(ret.frame[3], TCPFlagAck)
    /\ ret.frame[3].AckNum # tcpOf(layerStates).localSeqNum
    /\ Len(errs) = 1
    /\ Len(errs[1].got) = 3
    /\ errs[1].got[3].SeqNum = ret.frame[3].SeqNum
    /\ HasFlag(errs[1].got[3], TCPFlagAck)
    /\ errs[1].got[3].AckNum = ret.frame[3].AckNum

\* C16: the TCP layer of every frame the connection builds and sends has
\* localSeqNum for its sequence number and, once remoteSeqNum is known,
\* remoteSeqNum for its ack number, whatever was sent and matched before.
C16_OutgoingCarriesSeqAndAck ==
    [][(SendStep /\ Len(SentFrame) >= 3 /\ SentFrame[3].type = "TCP") =>
        LET s == tcpOf(layerStates)
        IN  /\ SentFrame[3].SeqNum = s.localSeqNum
            /\ s.remoteSeqNum # <<>> => SentFrame[3].AckNum = s.remoteSeqNum]_vars

\* a segment was sent after one with payload and after a matched capture: its
\* sequence number is past the payload and it acknowledges the capture
C16_Witness ==
    /\ Len(injected) = 2
    /\ pc = "idle"
    /\ hsX = <<>>
    /\ parse(injected[2])[3].SeqNum[1] =
            Plus32(parse(injected[1])[3].SeqNum[1], MaxPayloadLen)
    /\ tcpOf(layerStates).remoteSeqNum # <<>>
    /\ parse(injected[2])[3].AckNum = tcpOf(layerStates).remoteSeqNum
    /\ parse(injected[1])[3].AckNum # tcpOf(layerStates).remoteSeqNum

\* C17 as stated: localSeqNum and remoteSeqNum are both unset after
\* construction; only a send sets or changes localSeqNum, only a matched
\* receive sets or changes remoteSeqNum.
C17_BothUnsetUntilEstablished ==
    /\ tcpOf(layerStates).localSeqNum = <<>>
    /\ tcpOf(layerStates).remoteSeqNum = <<>>
    /\ [][/\ tcpOf(layerStates').localSeqNum # tcpOf(layerStates).localSeqNum
                => SendStep
          /\ tcpOf(layerStates').remoteSeqNum # tcpOf(layerStates).remoteSeqNum
                => MatchStep]_vars

\* C17 as amended: localSeqNum is set at construction, to the random initial
\* sequence number, and stays set; remoteSeqNum is unset until the first
\* matched receive sets it; only a send changes localSeqNum, only a matched
\* receive changes remoteSeqNum.
C17_LocalSetRemoteUnsetUntilMatch ==
    /\ tcpOf(layerStates).localSeqNum \in {<<rnd>> : rnd \in RandChoices}
    /\ tcpOf(layerStates).remoteSeqNum = <<>>
    /\ [][/\ tcpOf(layerStates').localSeqNum # <<>>
          /\ tcpOf(layerStates').localSeqNum # tcpOf(layerStates).localSeqNum
                => SendStep
          /\ tcpOf(layerStates').remoteSeqNum # tcpOf(layerStates).remoteSeqNum
                => MatchStep
          /\ MatchStep => tcpOf(layerStates').remoteSeqNum # <<>>]_vars

\* frames were sent and a capture did not match: remoteSeqNum is still unset
C17_Witness ==
    /\ Len(injected) >= 1
    /\ Len(errs) >= 1
    /\ errs[1].want # <<>>
    /\ tcpOf(layerStates).localSeqNum # <<>>
    /\ tcpOf(layerStates).remoteSeqNum = <<>>

\* Close has been called
Closed == closeLog # <<>>

\* a step in which Close is called
CloseStep == closeLog' # closeLog

\* the frames a test may have SendFrame send: its own, and those Send builds
\* with CreateFrame
FramesToSend ==
    SendFrameChoices(layerStates)
    \cup {CreateFrame(layerStates, c.layer, c.additionalLayers) :
                c \in SendChoicesOf(layerStates)}

\* C14: SendFrame serializes, injects, then updates the layer states: a frame
\* that does not serialize is not injected and changes no layer state; a
\* frame that serializes is injected even if a layer state then rejects it,
\* and sent is called on every layer state with the layer parsed from the
\* injected bytes.
C14_SerializeInjectUpdate ==
    [][/\ (pc = "idle" /\ (SendStep \/ pc' = "fatal") /\ ~CloseStep) =>
            \A frame \in FramesToSend :
                DoSendFrame(layerStates, frame, "idle") =>
                    IF ~ToBytesOk(frame)
                    THEN /\ pc' = "fatal"
                         /\ injected' = injected
                         /\ layerStates' = layerStates
                    ELSE injector = "open" =>
                            injected' = Append(injected, ToBytes(frame))
       /\ SendStep =>
            LET onWire == SentFrame
            IN  IF \A i \in 1..Len(layerStates) :
                        i <= Len(onWire) /\ sentOk(layerStates[i], onWire, i)
                THEN /\ pc' # "fatal"
                     /\ \A i \in 1..Len(layerStates) :
                            layerStates'[i] = sent(layerStates[i], onWire, i)
                ELSE /\ pc' = "fatal"
                     /\ layerStates' = layerStates
       /\ (pc = "idle" /\ pc' = "fatal" /\ ~SendStep /\ ~CloseStep) =>
            layerStates' = layerStates]_vars

\* a frame with a UDP layer went to the injector and the TCP state, which
\* rejected it, is as NewTCPIPv4 made it
C14_Witness ==
    /\ pc = "fatal"
    /\ tcpOf(layerStates).type = "tcpState"
    /\ Len(injected) = 1
    /\ parse(injected[1])[3].type = "UDP"
    /\ tcpOf(layerStates).localSeqNum \in {<<rnd>> : rnd \in RandChoices}
    /\ tcpOf(layerStates).finSent = FALSE

\* C18: once Close has been called the connection stays closed: every
\* operation after it fails the test or returns an error, none changes a
\* layer state, sends a frame or takes a capture, and no close is given a
\* descriptor that was released.
C18_ClosedIsTerminal ==
    [][Closed =>
        /\ layerStates' = layerStates
        /\ injected' = injected
        /\ fds' = fds
        /\ sniffer' = sniffer
        /\ injector' = injector
        /\ recvLog' = <<>>
        /\ ret'.kind # "ok"
        /\ pc' \in {"ExpectFrame", "idle", "fatal"}
        /\ (pc' = "idle") => (pc = "ExpectFrame" /\ ret'.kind = "timeout")
        /\ CloseStep =>
            /\ pc' = "fatal"
            /\ \A k \in 1..Len(closeLog') :
                closeLog'[k].on \in {"tcpState", "udpState"} =>
                    closeLog'[k].fd = 0 - 1]_vars

\* after frames were sent and Close closed everything, Close was called again
\* and failed the test
C18_Witness ==
    /\ pc = "fatal"
    /\ Len(injected) >= 1
    /\ sniffer = "closed"
    /\ injector = "closed"
    /\ fds = {}
    /\ Len(closeLog) = 5
    /\ closeLog[5].fd = 0 - 1
    /\ \A k \in {1, 2, 5} : closeLog[k].err

\* C19: Close calls close on the sniffer, on the injector and on every layer
\* state, whatever the closes before returned, and each close that returns no
\* error has closed its socket; the test is failed if and only if one of the
\* closes returned an error.
C19_CloseClosesEverything ==
    [][CloseStep =>
        /\ Len(closeLog') = 2 + Len(layerStates)
        /\ closeLog'[1].on = "sniffer"
        /\ closeLog'[2].on = "injector"
        /\ ~closeLog'[1].err => sniffer' = "closed"
        /\ ~closeLog'[2].err => injector' = "closed"
        /\ \A i \in 1..Len(layerStates) :
            /\ closeLog'[i + 2].on = layerStates[i].type
            /\ (closeFD(layerStates[i]) # 0 /\ ~closeLog'[i + 2].err) =>
                /\ closeLog'[i + 2].fd = layerStates[i].portPickerFD
                /\ closeLog'[i + 2].fd \notin fds'
        /\ pc' = "fatal" <=> (\E k \in 1..Len(closeLog') : closeLog'[k].err)
        /\ pc' # "fatal" => pc' = "idle"]_vars

\* the sniffer did not close; the injector and the port socket were closed all
\* the same, and the test is failed
C19_Witness ==
    /\ pc = "fatal"
    /\ Len(closeLog) = 5
    /\ closeLog[1].err
    /\ sniffer = "open"
    /\ ~closeLog[2].err
    /\ injector = "closed"
    /\ ~closeLog[5].err
    /\ fds = {}

\* C20: the socket that holds the ephemeral port is open from construction
\* through every send, expectation and drain; no descriptor is opened later;
\* only Close releases it, and the state's descriptor becomes -1 when, and
\* only when, its close returned no error.
C20_PortSocketHeldUntilClose ==
    /\ [](~Closed => /\ Last(layerStates).portPickerFD = pickPort.fd
                     /\ fds = {pickPort.fd})
    /\ [][/\ fds' \subseteq fds
          /\ fds' # fds => CloseStep
          /\ Last(layerStates').portPickerFD # Last(layerStates).portPickerFD
                => CloseStep
          /\ CloseStep =>
                IF closeLog'[5].err
                THEN Last(layerStates').portPickerFD = Last(layerStates).portPickerFD
                ELSE /\ Last(layerStates').portPickerFD = 0 - 1
                     /\ pickPort.fd \notin fds']_vars

\* the socket of a UDP connection was held through a send, then Close
\* released it
C20_Witness ==
    /\ pc = "idle"
    /\ Closed
    /\ Len(injected) >= 1
    /\ Last(layerStates).type = "udpState"
    /\ Last(layerStates).portPickerFD = 0 - 1
    /\ fds = {}

\* C25: once a FIN was sent, a segment that is sent moves localSeqNum by 1 if
\* it has SYN or FIN and not at all otherwise, whatever payload it carries: a
\* FIN that is sent again takes a second sequence number.
C25_AfterFinOnlyFlagsAdvance ==
    [][(SendStep /\ tcpOf(layerStates).finSent) =>
        tcpOf(layerStates').localSeqNum =
            <<Plus32(local, SynOrFin(SentFrame[3]))>>]_vars

\* a FIN with payload was sent twice: localSeqNum is past the payload once and
\* past two FINs
C25_Witness ==
    /\ Len(injected) = 2
    /\ LET f == parse(injected[1])
           g == parse(injected[2])
       IN  /\ HasFlag(f[3], TCPFlagFin)
           /\ HasFlag(g[3], TCPFlagFin)
           /\ NestedBytes(f, 3) = MaxPayloadLen
           /\ NestedBytes(g, 3) = MaxPayloadLen
           /\ local = Plus32(f[3].SeqNum[1], MaxPayloadLen + 2)

\* every field of the layer has a value
FullySpecified(layer) ==
    layer.type # "nil" /\ \A f \in FieldSet(layer.type) : IsSet(layer[f])

\* C26: merging other into a layer l of the same type succeeds and leaves in
\* every field of l the value of other if other has the field set, and the
\* value l had otherwise; a layer merged into itself is the layer it was.
C26_MergeTakesSetFields ==
    (layerRet.op = "merge" /\ layerL.type # "nil"
        /\ layerOther.type = layerL.type) =>
        /\ ~layerRet.err
        /\ layerRet.l.type = layerL.type
        /\ \A f \in FieldSet(layerL.type) :
            layerRet.l[f] = IF IsSet(layerOther[f]) THEN layerOther[f]
                            ELSE layerL[f]
        /\ (layerOther = layerL) => (layerRet.l = layerL)

\* an Ethernet layer with both addresses took the destination of a layer
\* that sets no source, and kept its own source
C26_Witness ==
    /\ layerRet.op = "merge"
    /\ layerL = Ether(Set(lMAC), Set(lMAC))
    /\ layerOther = Ether(Unset, Set(rMAC))
    /\ layerRet.l = Ether(Set(lMAC), Set(rMAC))

\* C27: an expectation matches a layer of its type, every field of which is
\* set, exactly when each field set in the expectation has the value the
\* layer has; a layer every field of which is set matches itself.
C27_MatchComparesSetFields ==
    (layerRet.op = "match" /\ layerL.type # "nil"
        /\ layerOther.type = layerL.type /\ FullySpecified(layerOther)) =>
        /\ layerRet.matched <=>
                \A f \in FieldSet(layerL.type) :
                    IsSet(layerL[f]) => Val(layerL[f]) = Val(layerOther[f])
        /\ (layerL = layerOther) => layerRet.matched

\* an expectation that sets only the flags matched a segment by them
C27_Witness ==
    /\ layerRet.op = "match"
    /\ layerRet.matched
    /\ layerL = TCP(Unset, Unset, Unset, Unset, Set(TCPFlagAck))
    /\ layerOther = TCP(Set(lport), Set(rport), Set(Seq32(0, 7)),
                        Set(Seq32(0, 9)), Set(TCPFlagAck))

\* the lines of the listing that begin a device, and the device line a line
\* comes under: the nearest one before it, 0 if there is none
DeviceLines == {k \in 1..Len(cmdOutput) : cmdOutput[k].head = "device"}
DeviceLineOf(k) ==
    IF \E j \in DeviceLines : j < k
    THEN CHOOSE j \in DeviceLines : j < k /\ \A i \in DeviceLines : i < k => i <= j
    ELSE 0

\* the last line with this head that comes under device line j, 0 if none
LastUnder(j, head) ==
    LET under == {k \in 1..Len(cmdOutput) :
                    k > j /\ DeviceLineOf(k) = j /\ cmdOutput[k].head = head}
    IN  IF under = {} THEN 0 ELSE CHOOSE k \in under : \A i \in under : i <= k

\* what the lines under device line j say of the device
InfoUnder(j) ==
    LET link == LastUnder(j, "link")
        inet == LastUnder(j, "inet")
        inet6 == LastUnder(j, "inet6")
    IN  [MAC |-> IF link = 0 THEN Unset ELSE Set(cmdOutput[link].text.addr),
         IPv4Addr |-> IF inet = 0 THEN Unset ELSE Set(cmdOutput[inet].text.addr),
         IPv4Net |-> IF inet = 0 THEN Unset
                     ELSE Set(ParseCIDR(cmdOutput[inet].text).net),
         IPv6Addr |-> IF inet6 = 0 THEN Unset ELSE Set(cmdOutput[inet6].text.addr),
         IPv6Net |-> IF inet6 = 0 THEN Unset
                     ELSE Set(ParseCIDR(cmdOutput[inet6].text).net)]

\* C29: the map ParseDevices returns has an entry for each device name of the
\* listing and for nothing else, the device the listing ends with included;
\* the entry holds what the link, inet and inet6 lines say that come under
\* the (last) device line of that name, a line coming under the nearest
\* device line before it; lines before the first device line are in no entry.
C29_LinesGoToTheDeviceBefore ==
    (devRet.op = "ParseDevices" /\ ~devRet.err) =>
        /\ DOMAIN devRet.deviceInfos = {cmdOutput[j].text : j \in DeviceLines}
        /\ \A j \in DeviceLines :
            (\A i \in DeviceLines : cmdOutput[i].text = cmdOutput[j].text => i <= j)
                => devRet.deviceInfos[cmdOutput[j].text] = InfoUnder(j)
        /\ DeviceLines = {} => devRet.deviceInfos = <<>>

\* a listing that begins with a hardware address and ends with a device that
\* has an IPv4 address: two entries, the address in neither
C29_Witness ==
    /\ devRet.op = "ParseDevices"
    /\ ~devRet.err
    /\ cmdOutput = <<Line("link", MACText(<<2, 66, 172, 17, 0, 2>>)),
                     Line("device", "lo"), Line("device", "eth0"),
                     Line("inet", CIDRText(<<10, 1>>, 8))>>
    /\ DOMAIN devRet.deviceInfos = {"lo", "eth0"}
    /\ devRet.deviceInfos["lo"] = DeviceInfo
    /\ devRet.deviceInfos["eth0"].MAC = Unset
    /\ devRet.deviceInfos["eth0"].IPv4Addr = Set(<<10, 1>>)
    /\ devRet.deviceInfos["eth0"].IPv4Net = Set([IP |-> <<10, 0>>, Mask |-> 8])

CreateStep == created = NoCall /\ created' # NoCall

\* C22: the frame CreateFrame returns has the outgoing layers of the layer
\* states first, in their order, the last of them with every field the
\* override sets taken from the override, then the additional layers in
\* their order, and nothing else.
C22_CreateFrameLayout ==
    [][(CreateStep /\ pc' # "fatal") =>
        LET frame == created'.frame
            layer == created'.layer
            n == Len(layerStates)
            last == outgoing(layerStates[n])
        IN  /\ Len(frame) = n + Len(created'.additionalLayers)
            /\ \A i \in 1..(n - 1) : frame[i] = outgoing(layerStates[i])
            /\ frame[n].type = last.type
            /\ \A f \in FieldSet(last.type) :
                frame[n][f] = IF IsSet(layer[f]) THEN layer[f] ELSE last[f]
            /\ \A j \in 1..Len(created'.additionalLayers) :
                frame[n + j] = created'.additionalLayers[j]]_vars

\* a FIN with payload was made for a connection that has a segment to
\* acknowledge: ports, sequence and acknowledgement number of the state, the
\* flags of the override, and the payload after them
C22_Witness ==
    /\ created # NoCall
    /\ pc = "idle"
    /\ Len(created.frame) = 4
    /\ created.frame[4] = Payload(Set(Zeros(MaxPayloadLen)))
    /\ created.frame[3].type = "TCP"
    /\ created.frame[3].Flags = Set(TCPFlagFin + TCPFlagAck)
    /\ created.frame[3].SrcPort = Set(lport)
    /\ IsSet(created.frame[3].AckNum)
    /\ created.frame[3].AckNum = tcpOf(layerStates).remoteSeqNum

\* C23: CreateFrame called with an override that is not of the type of the
\* last layer state's layer fails the test, returns no frame and leaves every
\* layer state as it was.
C23_CreateFrameTypeMismatchIsFatal ==
    [][(CreateStep
            /\ created'.layer.type # outgoing(Last(layerStates)).type) =>
        /\ pc' = "fatal"
        /\ created'.frame = <<>>
        /\ layerStates' = layerStates
        /\ injected' = injected]_vars

\* a UDP layer was given to a TCP connection
C23_Witness ==
    /\ pc = "fatal"
    /\ created # NoCall
    /\ created.layer.type = "UDP"
    /\ Last(layerStates).type = "tcpState"
    /\ created.frame = <<>>

\* C24: no call changes the out or the in template of a layer state; a
\* CreateFrame call, which merges the override into what outgoing returned,
\* changes no layer state, and neither does a turn of ExpectFrame in which
\* match merges the expectation into what incoming returned and finds no
\* match.
C24_TemplatesAreNeverWritten ==
    [][/\ \A i \in 1..Len(layerStates) :
            /\ layerStates'[i].out = layerStates[i].out
            /\ layerStates'[i].in = layerStates[i].in
       /\ CreateStep => layerStates' = layerStates
       /\ (pc = "ExpectFrame" /\ ret'.kind # "ok") =>
            layerStates' = layerStates]_vars

\* an override with flags was merged for a frame, an expectation with flags
\* was merged for a match, and the templates of the TCP state set the ports
\* only
C24_Witness ==
    /\ Last(layerStates).type = "tcpState"
    /\ created # NoCall
    /\ created.frame # <<>>
    /\ IsSet(created.frame[3].Flags)
    /\ ret.kind = "ok"
    /\ IsSet(expLayers[3].Flags)
    /\ Last(layerStates).out = TCP(Set(lport), Set(rport), Unset, Unset, Unset)
    /\ Last(layerStates).in = TCP(Set(rport), Set(lport), Unset, Unset, Unset)

\* C28: Expect hands ExpectFrame an expectation that is nil in every slot but
\* the last layer state's, where the caller's layer is; when ExpectFrame
\* returns a frame Expect returns the layer of that frame in the last layer
\* state's slot and no error, and when ExpectFrame returns an error Expect
\* returns that error and no layer.
C28_ExpectReturnsInnermostMatched ==
    [][/\ (pc = "idle" /\ caller' = "Expect") =>
            /\ Len(expLayers') = Len(layerStates)
            /\ \A i \in 1..(Len(layerStates) - 1) : expLayers'[i] = NilLayer
            /\ expLayers'[Len(layerStates)] \in ExpectChoices
       /\ (pc = "Expect") =>
            IF ret.kind = "ok"
            THEN /\ expectRet'.layer = ret.frame[Len(layerStates)]
                 /\ expectRet'.err = Unset
                 /\ matchLayer(expLayers[Len(layerStates)], expectRet'.layer)
            ELSE /\ expectRet'.layer = NilLayer
                 /\ expectRet'.err = Set(ret)
                 /\ ret.kind = "timeout"]_vars

\* Expect returned the TCP layer of a segment that has a payload after it
C28_Witness ==
    /\ expectRet # NoCall
    /\ pc = "idle"
    /\ ret.kind = "ok"
    /\ Len(ret.frame) = 4
    /\ expectRet.layer = ret.frame[3]
    /\ expectRet.layer.type = "TCP"
    /\ expectRet.err = Unset

\* C21: two connections of one process hold different local ports, a step of
\* one leaves the layer states of the other as they were, and the frame that
\* either matches with an empty TCP layer as its expectation is never one
\* addressed to the local port of the other.
C21_ConnectionsDoNotInterfere ==
    [][/\ LocalPort(layerStates) # LocalPort(peer.layerStates)
       /\ \/ layerStates' = layerStates
          \/ peer'.layerStates = peer.layerStates
       /\ MatchStep =>
            ret'.frame[3].DstPort # Set(LocalPort(peer.layerStates))
       /\ Len(peer'.matched) > Len(peer.matched) =>
            Last(peer'.matched)[3].DstPort # Set(LocalPort(layerStates))]_vars

\* both connections have sent and have matched a frame, and the first one
\* received a frame addressed to the port of the second on the way
C21_Witness ==
    /\ peer # NoPeer
    /\ Len(injected) > 0
    /\ Len(peer.injected) > 0
    /\ ret.kind = "ok"
    /\ Len(peer.matched) > 0
    /\ \E i \in 1..Len(recvLog) :
        /\ recvLog[i] # <<>>
        /\ recvLog[i][3].DstPort = Set(LocalPort(peer.layerStates))

----------------------------------------------------------------------------
\* C40: finSent of the TCP layer state is false when the connection is made,
\* a step makes it true exactly when it sends a segment with the FIN flag, and
\* once true it stays true, through Close as well.
C40_FinSentIsMonotonic ==
    /\ (Last(layerStates).type = "tcpState" => ~tcpOf(layerStates).finSent)
    /\ [][Last(layerStates).type = "tcpState" =>
            tcpOf(layerStates').finSent =
                \/ tcpOf(layerStates).finSent
                \/ /\ SendStep
                   /\ Len(SentFrame) >= 3
                   /\ SentFrame[3].type = "TCP"
                   /\ HasFlag(SentFrame[3], TCPFlagFin)]_vars

\* a segment without the FIN flag was sent after one with it, and finSent is
\* still true
C40_Witness ==
    /\ Last(layerStates).type = "tcpState"
    /\ Len(injected) = 2
    /\ parse(injected[1])[3].type = "TCP"
    /\ HasFlag(parse(injected[1])[3], TCPFlagFin)
    /\ parse(injected[2])[3].type = "TCP"
    /\ ~HasFlag(parse(injected[2])[3], TCPFlagFin)
    /\ tcpOf(layerStates).finSent

----------------------------------------------------------------------------
\* the layer type a layer state is for
LayerTypeOf(s) ==
    CASE s.type = "etherState" -> "Ether"
      [] s.type = "ipv4State" -> "IPv4"
      [] s.type = "tcpState" -> "TCP"
      [] s.type = "udpState" -> "UDP"

\* C36: whenever SendFrame has handed bytes to the injector, the frame parsed
\* from those bytes has a layer for every layer state of the connection, and
\* that layer is of the type the state is for.
C36_SentFrameCoversEveryState ==
    [][SendStep =>
        /\ Len(SentFrame) >= Len(layerStates)
        /\ \A i \in 1..Len(layerStates) :
            SentFrame[i].type = LayerTypeOf(layerStates[i])]_vars

----------------------------------------------------------------------------
\* C37: from the step that calls ExpectFrame to the step at which the call
\* returns its timeout error, no step changes a layer state: not the call
\* itself, not a turn that captured a frame that does not match and goes round
\* again, and not the turn that finds no time or no frame left.
C37_TimeoutLeavesStatesAlone ==
    [][/\ pc' = "ExpectFrame" => layerStates' = layerStates
       /\ (pc = "ExpectFrame" /\ ret'.kind = "timeout") =>
            layerStates' = layerStates]_vars

\* a call timed out after it captured a segment that did not match, and the
\* TCP state has the remoteSeqNum of construction: none
C37_Witness ==
    /\ pc = "idle"
    /\ ret.kind = "timeout"
    /\ \E k \in 1..Len(recvLog) :
        /\ Len(recvLog[k]) >= 3
        /\ recvLog[k][3].type = "TCP"
    /\ ~IsSet(tcpOf(layerStates).remoteSeqNum)

----------------------------------------------------------------------------
----------------------------------------------------------------------------
\* C39: a call of ExpectFrame takes one frame from the sniffer per turn.  The
\* frame it returns is the one it took last and matches; each frame it took
\* before did not match and has its one record in errs, in the order of
\* arrival; and once the call has returned it takes no frame more.
C39_ReturnsFirstMatchInOrder ==
    [][/\ Len(recvLog') <= Len(recvLog) + 1
       /\ pc # "ExpectFrame" => (recvLog' = recvLog \/ recvLog' = <<>>)
       /\ MatchStep =>
            LET taken == Captured'
                n == Len(taken)
            IN  /\ RecvStep
                /\ ret'.frame = taken[n]
                /\ Connection_match(layerStates, expLayers, taken[n])
                /\ Len(errs') = n - 1
                /\ \A k \in 1..(n - 1) :
                    /\ ~Connection_match(layerStates, expLayers, taken[k])
                    /\ errs'[k].got = taken[k]]_vars

\* a call returned the second frame it took, after one that did not match
C39_Witness ==
    /\ pc = "idle"
    /\ ret.kind = "ok"
    /\ Len(Captured) = 2
    /\ ret.frame = Captured[2]
    /\ Len(errs) = 1
    /\ errs[1].got = Captured[1]
    /\ Captured[1] # Captured[2]

\* goroutine t runs the body of Seek in this step
SeekStep(t) ==
    /\ tasks[t].pc = "Locked"
    /\ tasks[t].op = "Seek"
    /\ tasks'[t].pc = "idle"

\* C31: the offset of a seekable host file is never negative, whatever Seek,
\* Read and Write calls were made; and a Seek from the current offset or from
\* the end of the file gives EOVERFLOW if the sum is more than math.MaxInt64,
\* EINVAL if the sum is negative, and else stores the sum.
C31_OffsetIsNeverNegative ==
    /\ inode.offset >= 0
    /\ [][/\ inode'.offset >= 0
          /\ \A t \in Goroutines :
                /\ SeekStep(t)
                /\ \/ tasks[t].args.whence = SEEK_CUR
                   \/ /\ tasks[t].args.whence = SEEK_END
                      /\ host'.last.at # NoTransfer
                => LET base == IF tasks[t].args.whence = SEEK_CUR
                               THEN inode.offset ELSE host'.last.at[1]
                       sum == base + tasks[t].args.offset
                   IN  /\ sum > MaxInt64 => host'.last.err = "EOVERFLOW"
                       /\ sum < 0 => host'.last.err = "EINVAL"
                       /\ sum >= 0 /\ sum <= MaxInt64 =>
                            /\ host'.last.err = "nil"
                            /\ inode'.offset = sum]_vars

\* a Seek past math.MaxInt64 was turned down with the offset at math.MaxInt64
C31_Witness ==
    /\ inode.seekable
    /\ inode.offset = MaxInt64
    /\ host.last.op = "Seek"
    /\ host.last.err = "EOVERFLOW"

\* C32: a Seek that gives an error leaves the offset as it was and gives back
\* that offset with the error; a negative offset with SEEK_SET and a whence
\* that is not known are such errors.
C32_FailedSeekKeepsOffset ==
    [][\A t \in Goroutines : SeekStep(t) =>
            /\ host'.last.op = "Seek"
            /\ host'.last.err # "nil" =>
                    /\ inode'.offset = inode.offset
                    /\ host'.last.n = inode.offset
            /\ tasks[t].args.whence = SEEK_SET /\ tasks[t].args.offset < 0 =>
                    host'.last.err = "EINVAL"
            /\ tasks[t].args.whence \notin
                    {SEEK_SET, SEEK_CUR, SEEK_END, SEEK_DATA, SEEK_HOLE} =>
                    host'.last.err = "EINVAL"]_vars

\* a Seek gave EINVAL and the offset it left is not the first one
C32_Witness ==
    /\ inode.seekable
    /\ inode.offset > 0
    /\ host.last.op = "Seek"
    /\ host.last.err = "EINVAL"
    /\ host.last.n = inode.offset

\* C34: on a host file that is not seekable PRead, PWrite and Seek give
\* ESPIPE and 0, hand nothing to the host and leave the offset as NewFD made
\* it; Read and Write hand the host -1 for the offset, never i.offset, never
\* take offsetMu and never change the offset.
C34_NotSeekableNeverUsesOffset ==
    ~inode.seekable =>
        /\ inode.offset = 0
        /\ inode.offsetMu = 0
        /\ \A t \in Goroutines : tasks[t].pc = "idle"
        /\ host.last.op \in {"PRead", "PWrite", "Seek"} =>
                /\ host.last.err = "ESPIPE"
                /\ host.last.n = 0
                /\ host.last.at = NoTransfer
        /\ host.last.op \in {"Read", "Write"} => host.last.at = <<0 - 1>>

\* both goroutines have made their call on a file that is not seekable, the
\* later one a PRead
C34_Witness ==
    /\ ~inode.seekable
    /\ \A t \in Goroutines : tasks[t].calls > 0
    /\ host.last = Return("PRead", 0, "ESPIPE", NoTransfer)

\* the goroutines that are between i.offsetMu.Lock() and i.offsetMu.Unlock()
Holders == {t \in Goroutines : tasks[t].pc \in {"Locked", "Add", "Store"}}

\* C33: the offset is read and written only by the goroutine that holds
\* offsetMu, so no update of it is lost: what a goroutine loaded for
\* i.offset += n is still the offset when it stores, and whenever the mutex is
\* free the offset is what the last Seek stored plus the byte counts that the
\* Reads and Writes since have returned.
C33_NoOffsetUpdateIsLost ==
    inode.seekable =>
        /\ \A t \in Holders : inode.offsetMu = t
        /\ \A t \in Goroutines : tasks[t].pc = "Store" => tasks[t].tmp = inode.offset
        /\ inode.offsetMu = 0 => inode.offset = host.position

\* one goroutine has read MaxCount bytes from offset 0 and returned; the other
\* has made its transfer at the offset that left and is about to store
C33_Witness ==
    /\ inode.seekable
    /\ host.last \in {Return(op, MaxCount, "nil", <<0>>) : op \in {"Read", "Write"}}
    /\ host.position = MaxCount
    /\ \E t \in Goroutines :
        /\ tasks[t].pc = "Store"
        /\ tasks[t].args.offset = MaxCount
        /\ tasks[t].n > 0
        /\ tasks[t].calls = 0

\* the calls Destroy makes on the host for an inode, in their order
DestroyCalls(i) ==
    (IF i.wouldBlock THEN <<[op |-> "RemoveFD", fd |-> i.hostFD]>> ELSE <<>>)
    \o <<[op |-> "Close", fd |-> i.hostFD]>>

\* C35: while the inode has a reference nothing is done to its host
\* descriptor: it is open and, if it would block, with the notifier.  Once the
\* count is zero it stays zero, and the goroutine that took the last
\* reference calls unix.Close on the descriptor once and no more, after
\* fdnotifier.RemoveFD if the descriptor would block; when that goroutine is
\* done the close was made, and if it gave no error the descriptor is gone.
C35_ClosedOnceAtZero ==
    /\ inode.refs >= 0
    /\ inode.refs > 0 =>
            /\ host.calls = <<>>
            /\ inode.hostFD \in host.fds
            /\ inode.wouldBlock => inode.hostFD \in host.notifier
    /\ \E n \in 0..Len(DestroyCalls(inode)) :
            host.calls = SubSeq(DestroyCalls(inode), 1, n)
    /\ inode.refs = 0 /\ (\A t \in Goroutines : tasks[t].pc = "idle") =>
            /\ host.calls = DestroyCalls(inode)
            /\ inode.hostFD \notin host.notifier
            /\ host.last.op = "Close"
            /\ ~host.last.err => inode.hostFD \notin host.fds

\* the last of several references on a descriptor that would block was given
\* up, and it was taken from the notifier and then closed
C35_Witness ==
    /\ inode.wouldBlock
    /\ inode.refs = 0
    /\ \A t \in Goroutines : tasks[t].pc = "idle"
    /\ host.calls = <<[op |-> "RemoveFD", fd |-> inode.hostFD],
                      [op |-> "Close", fd |-> inode.hostFD]>>
    /\ host.notifier = {}
    /\ host.fds = {}

====
